---- MODULE Spec2Model ----
(***************************************************************************)
(* SlateHub semantic search core.                                          *)
(*                                                                         *)
(*   server/src/services/embedding.rs  the process-wide embedding model   *)
(*                                     behind the EMBEDDER mutex, and the  *)
(*                                     embedding-text builders             *)
(*   server/src/routes/search.rs       search_page and the four per-kind  *)
(*                                     nearest-neighbour lookups           *)
(*                                                                         *)
(* Spec        threads calling init_embedding_service, generate_embedding  *)
(*             and generate_embeddings_batch concurrently                  *)
(* SpecSearch  search_page requests, one at a time, beside initialization  *)
(* SpecKind    the four per-kind lookups applied to every store response  *)
(* SpecText    the four embedding-text builders applied to attribute sets  *)
(*                                                                         *)
(*   whatsapp-bot/src/main.rs          the equipment bot: the on_event     *)
(*                                     closure and the commands on the     *)
(*                                     EquipmentStore                      *)
(*                                                                         *)
(* SpecBot     message handlers running concurrently on the store          *)
(***************************************************************************)
EXTENDS Integers, Sequences, FiniteSets, TLC

VARIABLES
    embedder,      \* content of EMBEDDER: 0 = None, n > 0 = Some(n-th loaded model)
    lockHolder,    \* thread holding the EMBEDDER mutex, 0 = free
    poisoned,      \* the mutex is poisoned (a holder panicked)
    debugEnabled,  \* the tracing subscriber enables DEBUG events
    loads,         \* number of models loaded so far by TextEmbedding::try_new
    pc,            \* per thread: position in the running operation
    req,           \* per thread: the running operation and its locals
    sk,            \* SpecKind: the last per-kind lookup, its response and result
    clockYear,     \* the year chrono::Utc::now() reports
    tb,            \* SpecText: the last builder call, its attributes and texts
    store,         \* EquipmentStore: chat id -> list of equipment items
    rw,            \* the store's RwLock: the writer (0 = none) and the readers
    handler,       \* per message handler: its event, position and locals
    sent,          \* the replies handed to client.send_message, in order
    received,      \* number of events received so far
    overflowChecks \* the build panics on integer overflow (else it wraps)

serverVars == <<embedder, lockHolder, poisoned, debugEnabled, loads, pc, req, sk,
                clockYear, tb>>

botVars == <<store, rw, handler, sent, received, overflowChecks>>

vars == <<serverVars, botVars>>

-----------------------------------------------------------------------------
(* Bounds *)

NumThreads == 2     \* threads calling the embedding service
MaxLoads == 2       \* successful model loads
MaxBatch == 2       \* texts in one batch
MaxRows == 2        \* rows of a store response in SpecKind (the query asks for 10)
MaxStoreRows == 1   \* rows of a store response in SpecSearch
MaxYearsPassed == 1 \* new years the clock passes in SpecText
NumHandlers == 2    \* message handlers of the bot running at a time
MaxMessages == 2    \* events the bot receives

-----------------------------------------------------------------------------
(* f32 arithmetic, as far as the score computation uses it.                *)
(* A value is [k, s, m, e]: k = "nan", k = "inf" (sign s), or k = "fin"    *)
(* with value s * m * 2^e, m < 2^24.  Exponent range limits (subnormals,   *)
(* overflow to infinity) are outside the modelled inputs; negative zero is *)
(* not distinguished from zero (no operation below tells them apart).      *)

I32_MAX == 2147483647
I32_MIN == -2147483647 - 1

F32Nan == [k |-> "nan", s |-> 1, m |-> 0, e |-> 0]
F32Inf(sg) == [k |-> "inf", s |-> sg, m |-> 0, e |-> 0]
F32Fin(sg, mant, ex) == [k |-> "fin", s |-> sg, m |-> mant, e |-> ex]
F32Zero == F32Fin(1, 0, 0)

RECURSIVE BitLen(_)
BitLen(n) == IF n = 0 THEN 0 ELSE 1 + BitLen(n \div 2)

\* round-to-nearest, ties-to-even of sg * n * 2^ex to 24 significant bits
RoundF32(sg, n, ex) ==
    IF n = 0 THEN F32Zero
    ELSE IF BitLen(n) <= 24 THEN F32Fin(sg, n, ex)
    ELSE LET drop == BitLen(n) - 24
             unit == 2 ^ drop
             q == n \div unit
             r == n % unit
             up == (2 * r > unit) \/ (2 * r = unit /\ q % 2 = 1)
             q2 == IF up THEN q + 1 ELSE q
         IN  IF q2 = 2 ^ 24 THEN F32Fin(sg, 2 ^ 23, ex + drop + 1)
             ELSE F32Fin(sg, q2, ex + drop)

Sgn(i) == IF i < 0 THEN -1 ELSE 1
Abs(i) == IF i < 0 THEN -i ELSE i

\* 1.0 - d   (finite d with -29 <= e and |d| < 2^25)
F32OneMinus(d) ==
    CASE d.k = "nan" -> F32Nan
      [] d.k = "inf" -> F32Inf(-d.s)
      [] OTHER ->
            IF d.e >= 0
            THEN LET x == 1 - d.s * d.m * (2 ^ d.e) IN RoundF32(Sgn(x), Abs(x), 0)
            ELSE LET x == (2 ^ (-d.e)) - d.s * d.m IN RoundF32(Sgn(x), Abs(x), d.e)

\* f32::max(x, 0.0): the non-NaN operand when one is NaN
F32Max0(x) ==
    CASE x.k = "nan" -> F32Zero
      [] x.k = "inf" -> IF x.s = 1 THEN x ELSE F32Zero
      [] OTHER -> IF x.s = 1 THEN x ELSE F32Zero

\* x * 100.0 for x >= 0
F32Times100(x) ==
    IF x.k = "inf" THEN x ELSE RoundF32(1, x.m * 100, x.e)

\* f32::round for x >= 0: nearest integer, halves away from zero
F32Round(x) ==
    IF x.k = "inf" \/ x.e >= 0 THEN x
    ELSE IF -x.e >= 26 THEN F32Zero
    ELSE LET unit == 2 ^ (-x.e)
             q == x.m \div unit
             r == x.m % unit
         IN  F32Fin(1, IF 2 * r >= unit THEN q + 1 ELSE q, 0)

\* `as i32` of an integer-valued f32: saturating, NaN to 0
F32AsI32(x) ==
    CASE x.k = "nan" -> 0
      [] x.k = "inf" -> IF x.s = 1 THEN I32_MAX ELSE I32_MIN
      [] OTHER ->
            IF x.m = 0 THEN 0
            ELSE IF BitLen(x.m) + x.e > 31
                 THEN (IF x.s = 1 THEN I32_MAX ELSE I32_MIN)
                 ELSE x.s * x.m * (2 ^ x.e)

\* the distance taken for the similarity
Similarity_Unflipped(dist) == F32Max0(dist)

\* let similarity = (1.0 - dist).max(0.0);
Similarity(dist) == F32Max0(F32OneMinus(dist))

\* score: (similarity * 100.0).round() as i32
Score(dist) == F32AsI32(F32Round(F32Times100(Similarity(dist))))

RELEVANCE_FLOOR == 50

\* raw distances the store hands back (f32 literals)
D_0 == F32Zero
D_0_3 == F32Fin(1, 5033165, -24)
D_0_495 == F32Fin(1, 4152361, -23)
D_0_5 == F32Fin(1, 1, -1)
D_0_505 == F32Fin(1, 4236247, -23)
D_0_51 == F32Fin(1, 2139095, -22)
D_1 == F32Fin(1, 1, 0)
D_1_6 == F32Fin(1, 13421773, -23)
D_neg_0_5 == F32Fin(-1, 1, -1)
D_neg_1000 == F32Fin(-1, 125, 3)

\* the store's answers seen by search_page
StoreDists == {D_0_3, D_1_6}

Dists == {D_0, D_0_3, D_0_495, D_0_5, D_0_505, D_0_51, D_1, D_1_6,
          D_neg_0_5, D_neg_1000, F32Nan, F32Inf(1), F32Inf(-1)}

-----------------------------------------------------------------------------
(* The store's answer to one nearest-neighbour query (DB.query(..).await   *)
(* then response.take(0)): the query fails, the rows fail to deserialize,  *)
(* or up to n rows come back.  A row carries the columns the scoring and   *)
(* filtering read: dist, and is_public for the location table; id stands   *)
(* for the display columns, which are copied through unchanged.            *)

Kinds == <<"people", "organizations", "locations", "productions">>
KindSet == {Kinds[i] : i \in 1..Len(Kinds)}

\* char::is_whitespace, on the characters that occur in the modelled texts
Whitespace == {" ", "\t"}

\* person names the store hands back, as sequences of characters
\* ("eszett" is the one character U+00DF)
Names ==
    {<<>>,
     <<" ", "\t">>,
     <<"j", "o">>,
     <<"J", "D">>,
     <<" ", "j", "o", " ", " ", "d", "o", "e">>,
     <<"j", "\t", "d", " ", "x">>,
     <<"eszett", "a", " ", "1", "b">>}

PlainNames == {<<"j", "o">>}

Columns(kind, dists, names) ==
    IF kind = "locations"
    THEN [dist : dists, is_public : BOOLEAN]
    ELSE IF kind = "people"
    THEN [dist : dists, name : names]
    ELSE [dist : dists]

WithId(cols) == [i \in 1..Len(cols) |-> [id |-> i] @@ cols[i]]

RowSeqs(kind, dists, names, n) ==
    {WithId(c) : c \in UNION {[1..len -> Columns(kind, dists, names)] : len \in 0..n}}

QueryErr == [tag |-> "query_err"]
DeserErr == [tag |-> "deser_err"]
Rows(rows) == [tag |-> "rows", rows |-> rows]

StoreResponses(kind, dists, names, n) ==
    {QueryErr, DeserErr} \cup {Rows(r) : r \in RowSeqs(kind, dists, names, n)}

\* Result values: Ok(v), Err(e); a panic unwinds the task; Unset = no value yet
Ok(v) == [tag |-> "ok", val |-> v]
Err(e) == [tag |-> "err", err |-> e]
Panicked == [tag |-> "panic"]
Unset == [tag |-> "unset"]

MapSeq(F(_), s) == [i \in 1..Len(s) |-> F(s[i])]

Shaped(row) == [id |-> row.id, score |-> Score(row.dist)]

\* str::split_whitespace: the maximal runs of non-whitespace characters
RECURSIVE SplitWhitespace(_)
SplitWhitespace(text) ==
    IF text = <<>> THEN <<>>
    ELSE IF Head(text) \in Whitespace THEN SplitWhitespace(Tail(text))
    ELSE LET rest == SplitWhitespace(Tail(text)) IN
         IF Len(text) > 1 /\ text[2] \notin Whitespace
         THEN <<<<Head(text)>> \o Head(rest)>> \o Tail(rest)
         ELSE <<<<Head(text)>>>> \o rest

\* char::to_uppercase, on the characters that occur in the modelled names
UpperOf(c) ==
    CASE c = "j" -> <<"J">>
      [] c = "o" -> <<"O">>
      [] c = "d" -> <<"D">>
      [] c = "e" -> <<"E">>
      [] c = "x" -> <<"X">>
      [] c = "a" -> <<"A">>
      [] c = "b" -> <<"B">>
      [] c = "eszett" -> <<"S", "S">>
      [] OTHER -> <<c>>

\* str::to_uppercase
RECURSIVE ToUppercase(_)
ToUppercase(text) ==
    IF text = <<>> THEN <<>> ELSE UpperOf(Head(text)) \o ToUppercase(Tail(text))

\* word.chars().next()
FirstChar(word) == Head(word)

\* Iterator::take(n)
Take(seq, n) == SubSeq(seq, 1, IF Len(seq) < n THEN Len(seq) ELSE n)

\* the first character of every word, none left out
Initials_AllWords(name) ==
    ToUppercase(MapSeq(FirstChar, SplitWhitespace(name)))

\* name.split_whitespace().filter_map(|word| word.chars().next()).take(2)
\*     .collect::<String>().to_uppercase()
Initials(name) ==
    ToUppercase(Take(MapSeq(FirstChar, SplitWhitespace(name)), 2))

ShapedPerson(row) ==
    [id |-> row.id, initials |-> Initials(row.name), score |-> Score(row.dist)]
MeetsFloor(r) == r.score >= RELEVANCE_FLOOR
IsPublic(l) == l.is_public

\* a store failure read as no rows
search_people_ErrAsEmpty(resp) ==
    IF resp.tag = "query_err" THEN Ok(<<>>)
    ELSE IF resp.tag = "deser_err" THEN Ok(<<>>)
    ELSE Ok(SelectSeq(MapSeq(ShapedPerson, resp.rows), MeetsFloor))

search_people(resp) ==
    IF resp.tag = "query_err" THEN Err("Database")
    ELSE IF resp.tag = "deser_err" THEN Err("Database")
    ELSE Ok(SelectSeq(MapSeq(ShapedPerson, resp.rows), MeetsFloor))

AboveFloor(r) == r.score > RELEVANCE_FLOOR

\* the floor as a strict comparison
search_organizations_StrictFloor(resp) ==
    IF resp.tag = "query_err" THEN Err("Database")
    ELSE IF resp.tag = "deser_err" THEN Err("Database")
    ELSE Ok(SelectSeq(MapSeq(Shaped, resp.rows), AboveFloor))

search_organizations(resp) ==
    IF resp.tag = "query_err" THEN Err("Database")
    ELSE IF resp.tag = "deser_err" THEN Err("Database")
    ELSE Ok(SelectSeq(MapSeq(Shaped, resp.rows), MeetsFloor))

\* the visibility filter left out
search_locations_NoVisibility(resp) ==
    IF resp.tag = "query_err" THEN Err("Database")
    ELSE IF resp.tag = "deser_err" THEN Err("Database")
    ELSE Ok(SelectSeq(MapSeq(Shaped, resp.rows), MeetsFloor))

search_locations(resp) ==
    IF resp.tag = "query_err" THEN Err("Database")
    ELSE IF resp.tag = "deser_err" THEN Err("Database")
    ELSE Ok(SelectSeq(MapSeq(Shaped, SelectSeq(resp.rows, IsPublic)), MeetsFloor))

search_productions(resp) ==
    IF resp.tag = "query_err" THEN Err("Database")
    ELSE IF resp.tag = "deser_err" THEN Err("Database")
    ELSE Ok(SelectSeq(MapSeq(Shaped, resp.rows), MeetsFloor))

search_kind(kind, resp) ==
    CASE kind = "people" -> search_people(resp)
      [] kind = "organizations" -> search_organizations(resp)
      [] kind = "locations" -> search_locations(resp)
      [] kind = "productions" -> search_productions(resp)

-----------------------------------------------------------------------------
(* SpecKind: each per-kind lookup applied to every store response.         *)

NoCall == [kind |-> "none"]

CallSearchPeople ==
    /\ sk = NoCall
    /\ \E resp \in StoreResponses("people", Dists, PlainNames, MaxRows)
                     \cup StoreResponses("people", StoreDists, Names, MaxRows) :
          sk' = [kind |-> "people", resp |-> resp, result |-> search_people(resp)]
    /\ UNCHANGED <<embedder, lockHolder, poisoned, debugEnabled, loads, pc, req,
                   clockYear, tb, botVars>>

CallSearchOrganizations ==
    /\ sk = NoCall
    /\ \E resp \in StoreResponses("organizations", Dists, PlainNames, MaxRows) :
          sk' = [kind |-> "organizations", resp |-> resp,
                 result |-> search_organizations(resp)]
    /\ UNCHANGED <<embedder, lockHolder, poisoned, debugEnabled, loads, pc, req,
                   clockYear, tb, botVars>>

CallSearchLocations ==
    /\ sk = NoCall
    /\ \E resp \in StoreResponses("locations", Dists, PlainNames, MaxRows) :
          sk' = [kind |-> "locations", resp |-> resp, result |-> search_locations(resp)]
    /\ UNCHANGED <<embedder, lockHolder, poisoned, debugEnabled, loads, pc, req,
                   clockYear, tb, botVars>>

CallSearchProductions ==
    /\ sk = NoCall
    /\ \E resp \in StoreResponses("productions", Dists, PlainNames, MaxRows) :
          sk' = [kind |-> "productions", resp |-> resp,
                 result |-> search_productions(resp)]
    /\ UNCHANGED <<embedder, lockHolder, poisoned, debugEnabled, loads, pc, req,
                   clockYear, tb, botVars>>

\* the caller has taken the result
KindReturn ==
    /\ sk # NoCall
    /\ sk' = NoCall
    /\ UNCHANGED <<embedder, lockHolder, poisoned, debugEnabled, loads, pc, req,
                   clockYear, tb, botVars>>

NextKind ==
    \/ KindReturn
    \/ CallSearchPeople
    \/ CallSearchOrganizations
    \/ CallSearchLocations
    \/ CallSearchProductions

-----------------------------------------------------------------------------
(* Text: a sequence of characters, each with its UTF-8 width.              *)

ByteWidth(c) == IF c = "eacute" THEN 2 ELSE IF c = "kelvin" THEN 3 ELSE 1

\* the bytes of the first n characters: UTF-8 writes a character in 1..4 bytes
ByteOffset(text, n) ==
    LET Wide(w) == Cardinality({j \in 1..n : ByteWidth(text[j]) = w})
    IN  Wide(1) + 2 * Wide(2) + 3 * Wide(3) + 4 * Wide(4)

\* str::len
ByteLen(text) == ByteOffset(text, Len(text))

Rep(c, n) == [i \in 1..n |-> c]

\* str::is_char_boundary: idx is 0, the length, or the offset of a character
IsCharBoundary(text, idx) == \E n \in 0..Len(text) : ByteOffset(text, n) = idx

RECURSIVE TrimStart(_)
TrimStart(text) ==
    IF text # <<>> /\ Head(text) \in Whitespace THEN TrimStart(Tail(text)) ELSE text

RECURSIVE TrimEnd(_)
TrimEnd(text) ==
    IF text # <<>> /\ text[Len(text)] \in Whitespace
    THEN TrimEnd(SubSeq(text, 1, Len(text) - 1))
    ELSE text

\* str::trim
Trim(text) == TrimEnd(TrimStart(text))

Min(a, b) == IF a <= b THEN a ELSE b

LOG_PREFIX_BYTES == 100

\* &text[..text.len().min(100)] panics unless the end is a char boundary
LogPrefixPanics(text) ==
    ~IsCharBoundary(text, Min(ByteLen(text), LOG_PREFIX_BYTES))

\* 99 one-byte characters, then a two-byte character across byte offset 100
LongText == Rep("a", 99) \o <<"eacute">>

\* params.q: absent, or Some(text)
NoQuery == [some |-> FALSE]
SomeQuery(text) == [some |-> TRUE, text |-> text]

\* The requests' texts.  A request's state holds the name of its input; the
\* operations read the characters through Param, Text and BatchText.
SearchQueries == {"absent", "empty", "blank", "padded", "long"}

Param(q) ==
    CASE q = "absent" -> NoQuery
      [] q = "empty" -> SomeQuery(<<>>)
      [] q = "blank" -> SomeQuery(<<" ", " ">>)
      [] q = "padded" -> SomeQuery(<<" ", "a", " ">>)
      [] q = "long" -> SomeQuery(LongText)

\* params.q.as_deref().unwrap_or("").trim()
QueryText(q) == Trim(IF Param(q).some THEN Param(q).text ELSE <<>>)

EmbedTexts == {"short", "long"}
Text(name) == IF name = "long" THEN LongText ELSE <<"a">>

\* batches of 0..MaxBatch pairwise different texts, the i-th of i characters
BatchText(i) == Rep("b", i)
BatchInputs == {[i \in 1..n |-> i] : n \in 0..MaxBatch}

\* the vector the model computes for a text: a function of the text alone
Embedding(text) == <<Len(text), ByteLen(text)>>
BatchEmbedding(i) == Embedding(BatchText(i))


-----------------------------------------------------------------------------
(* The four embedding-text builders.  A text is a sequence of pieces; a    *)
(* piece is a run of characters the builders only copy: a literal of a     *)
(* format string, a decimal digit or sign, or a piece of an argument.  ""  *)
(* is the empty sequence.  An Option is None or Some(v); a slice of        *)
(* strings is a sequence of texts.                                         *)

None == [some |-> FALSE]
Some(v) == [some |-> TRUE, val |-> v]

Digits == <<"0", "1", "2", "3", "4", "5", "6", "7", "8", "9">>

RECURSIVE FmtNat(_)
FmtNat(n) ==
    IF n < 10 THEN <<Digits[n + 1]>>
    ELSE FmtNat(n \div 10) \o <<Digits[(n % 10) + 1]>>

\* format!("{}", n) for an i32
FmtInt(n) == IF n < 0 THEN <<"-">> \o FmtNat(-n) ELSE FmtNat(n)

\* i32 `/` and `%`: the quotient truncates toward zero
TruncDiv(a, b) == IF a >= 0 THEN a \div b ELSE -((-a) \div b)
TruncRem(a, b) == a - b * TruncDiv(a, b)

\* [String]::join(sep) and Vec<String>::join(sep)
RECURSIVE Join(_, _)
Join(items, sep) ==
    IF items = <<>> THEN <<>>
    ELSE IF Len(items) = 1 THEN items[1]
    ELSE items[1] \o sep \o Join(Tail(items), sep)

\* if let Some(v) = opt { parts.push(format!(label, v)) }
PushSome(opt, label) == IF opt.some THEN <<label \o opt.val>> ELSE <<>>

\* if !list.is_empty() { parts.push(format!(label, list.join(", "))) }
PushList(list, label) ==
    IF list # <<>> THEN <<label \o Join(list, <<", ">>)>> ELSE <<>>

\* the bio pushed right after the headline
build_person_embedding_text_BioFirst(name, headline, bio, skills, location, age_range, gender, ethnicity, height_cm, body_type, hair_color, eye_color, languages, unions, experience) ==
    LET parts ==
            <<<<"Name: ">> \o name>>
            \o PushSome(headline, <<"Role: ">>)
            \o PushSome(bio, <<"Background: ">>)
            \o PushSome(gender, <<"Gender: ">>)
            \o (IF age_range.some
                THEN <<<<"Age range: ">> \o FmtInt(age_range.val[1]) \o <<"-">>
                       \o FmtInt(age_range.val[2]) \o <<" years old">>>>
                ELSE <<>>)
            \o PushList(ethnicity, <<"Ethnicity: ">>)
            \o (IF height_cm.some
                THEN LET height == height_cm.val
                         feet == TruncDiv(height, 30)
                         inches == TruncDiv(TruncRem(height, 30) * 12, 30)
                     IN  <<<<"Height: ">> \o FmtInt(height) \o <<" cm (">>
                           \o FmtInt(feet) \o <<"'">> \o FmtInt(inches) \o <<"\")">>>>
                ELSE <<>>)
            \o PushSome(body_type, <<"Build: ">>)
            \o PushSome(hair_color, <<"Hair: ">>)
            \o PushSome(eye_color, <<"Eyes: ">>)
            \o PushSome(location, <<"Location: ">>)
            \o PushList(skills, <<"Skills and abilities: ">>)
            \o PushList(languages, <<"Languages: ">>)
            \o PushList(unions, <<"Union membership: ">>)
            \o (IF experience # <<>>
                THEN <<<<"Experience: ">> \o Join(experience, <<". ">>)>>
                ELSE <<>>)
    IN  Join(parts, <<". ">>)

build_person_embedding_text(name, headline, bio, skills, location, age_range, gender, ethnicity, height_cm, body_type, hair_color, eye_color, languages, unions, experience) ==
    LET parts ==
            <<<<"Name: ">> \o name>>
            \o PushSome(headline, <<"Role: ">>)
            \o PushSome(gender, <<"Gender: ">>)
            \o (IF age_range.some
                THEN <<<<"Age range: ">> \o FmtInt(age_range.val[1]) \o <<"-">>
                       \o FmtInt(age_range.val[2]) \o <<" years old">>>>
                ELSE <<>>)
            \o PushList(ethnicity, <<"Ethnicity: ">>)
            \o (IF height_cm.some
                THEN LET height == height_cm.val
                         feet == TruncDiv(height, 30)
                         inches == TruncDiv(TruncRem(height, 30) * 12, 30)
                     IN  <<<<"Height: ">> \o FmtInt(height) \o <<" cm (">>
                           \o FmtInt(feet) \o <<"'">> \o FmtInt(inches) \o <<"\")">>>>
                ELSE <<>>)
            \o PushSome(body_type, <<"Build: ">>)
            \o PushSome(hair_color, <<"Hair: ">>)
            \o PushSome(eye_color, <<"Eyes: ">>)
            \o PushSome(location, <<"Location: ">>)
            \o PushList(skills, <<"Skills and abilities: ">>)
            \o PushList(languages, <<"Languages: ">>)
            \o PushList(unions, <<"Union membership: ">>)
            \o PushSome(bio, <<"Background: ">>)
            \o (IF experience # <<>>
                THEN <<<<"Experience: ">> \o Join(experience, <<". ">>)>>
                ELSE <<>>)
    IN  Join(parts, <<". ">>)

\* match count { 0..=10 => "small", 11..=50 => "medium", 51..=200 => "large",
\*               _ => "enterprise" }
SizeLabel(count) ==
    IF 0 <= count /\ count <= 10 THEN "small"
    ELSE IF 11 <= count /\ count <= 50 THEN "medium"
    ELSE IF 51 <= count /\ count <= 200 THEN "large"
    ELSE "enterprise"

build_organization_embedding_text(name, org_type, description, services, location, founded_year, employees_count) ==
    LET parts ==
            <<<<"Organization: ">> \o name>>
            \o <<<<"Type: ">> \o org_type>>
            \o PushSome(location, <<"Location: ">>)
            \o PushList(services, <<"Services: ">>)
            \o (IF founded_year.some
                THEN LET year == founded_year.val
                         age == clockYear - year
                     IN  <<<<"Established ">> \o FmtInt(age)
                           \o <<" years ago (founded ">> \o FmtInt(year) \o <<")">>>>
                ELSE <<>>)
            \o (IF employees_count.some
                THEN LET count == employees_count.val
                         size == SizeLabel(count)
                     IN  <<<<size, " company with ">> \o FmtInt(count)
                           \o <<" employees">>>>
                ELSE <<>>)
            \o PushSome(description, <<"Description: ">>)
    IN  Join(parts, <<". ">>)

\* the parking fragment pushed whether or not there is parking info
build_location_embedding_text_AlwaysParking(name, description, city, state, country, amenities, restrictions, max_capacity, parking_info) ==
    LET parts ==
            <<<<"Location: ">> \o name>>
            \o <<<<"Located in ">> \o city \o <<", ">> \o state \o <<", ">> \o country>>
            \o PushSome(description, <<"Description: ">>)
            \o PushList(amenities, <<"Amenities and features: ">>)
            \o (IF max_capacity.some
                THEN <<<<"Maximum capacity: ">> \o FmtInt(max_capacity.val)
                       \o <<" people">>>>
                ELSE <<>>)
            \o <<<<"Parking: ">> \o (IF parking_info.some THEN parking_info.val ELSE <<>>)>>
            \o PushList(restrictions, <<"Restrictions: ">>)
    IN  Join(parts, <<". ">>)

build_location_embedding_text(name, description, city, state, country, amenities, restrictions, max_capacity, parking_info) ==
    LET parts ==
            <<<<"Location: ">> \o name>>
            \o <<<<"Located in ">> \o city \o <<", ">> \o state \o <<", ">> \o country>>
            \o PushSome(description, <<"Description: ">>)
            \o PushList(amenities, <<"Amenities and features: ">>)
            \o (IF max_capacity.some
                THEN <<<<"Maximum capacity: ">> \o FmtInt(max_capacity.val)
                       \o <<" people">>>>
                ELSE <<>>)
            \o PushSome(parking_info, <<"Parking: ">>)
            \o PushList(restrictions, <<"Restrictions: ">>)
    IN  Join(parts, <<". ">>)

\* an end date alone announced as the start
build_production_embedding_text_EndAsStart(title, production_type, status, description, location, start_date, end_date) ==
    LET parts ==
            <<<<"Production: ">> \o title>>
            \o <<<<"Type: ">> \o production_type>>
            \o <<<<"Status: ">> \o status>>
            \o (IF start_date.some
                THEN IF end_date.some
                     THEN <<<<"Scheduled from ">> \o start_date.val
                            \o <<" to ">> \o end_date.val>>
                     ELSE <<<<"Starts on ">> \o start_date.val>>
                ELSE IF end_date.some
                     THEN <<<<"Starts on ">> \o end_date.val>>
                     ELSE <<>>)
            \o PushSome(location, <<"Filming location: ">>)
            \o PushSome(description, <<"Description: ">>)
    IN  Join(parts, <<". ">>)

build_production_embedding_text(title, production_type, status, description, location, start_date, end_date) ==
    LET parts ==
            <<<<"Production: ">> \o title>>
            \o <<<<"Type: ">> \o production_type>>
            \o <<<<"Status: ">> \o status>>
            \o (IF start_date.some
                THEN IF end_date.some
                     THEN <<<<"Scheduled from ">> \o start_date.val
                            \o <<" to ">> \o end_date.val>>
                     ELSE <<<<"Starts on ">> \o start_date.val>>
                ELSE <<>>)
            \o PushSome(location, <<"Filming location: ">>)
            \o PushSome(description, <<"Description: ">>)
    IN  Join(parts, <<". ">>)

-----------------------------------------------------------------------------
(* SpecText: each builder called on attribute sets, and called again with  *)
(* the same attributes later.  An attribute set is given by the optional   *)
(* attributes that are present and by at most one attribute whose value is *)
(* the empty string (for a list: one empty item).                          *)

\* the clock's year when the process starts; MaxYearsPassed bounds its advance
StartYear == 2024

OptText(f, shape, sample) ==
    IF f = shape.blank THEN Some(<<>>)
    ELSE IF f \in shape.present THEN Some(<<sample>>)
    ELSE None

OptVal(f, shape, sample) == IF f \in shape.present THEN Some(sample) ELSE None

ReqText(f, shape, sample) == IF f = shape.blank THEN <<>> ELSE <<sample>>

ListOf(f, shape, sample) ==
    IF f = shape.blank THEN << <<>> >>
    ELSE IF f \in shape.present THEN [i \in 1..Len(sample) |-> <<sample[i]>>]
    ELSE <<>>

Shapes(optional, blankable) ==
    {[present |-> S, blank |-> "none"] : S \in SUBSET optional}
    \cup {[present |-> {b} \cap optional, blank |-> b] : b \in blankable}
    \cup {[present |-> optional, blank |-> b] : b \in blankable}

PersonOptional ==
    {"headline", "bio", "skills", "location", "age_range", "gender", "ethnicity",
     "height_cm", "body_type", "hair_color", "eye_color", "languages", "unions",
     "experience"}

PersonArgs(shape) ==
    [name |-> ReqText("name", shape, "John Doe"),
     headline |-> OptText("headline", shape, "Actor"),
     bio |-> OptText("bio", shape, "Experienced theater performer"),
     skills |-> ListOf("skills", shape, <<"acting", "singing">>),
     location |-> OptText("location", shape, "Los Angeles, CA"),
     age_range |-> OptVal("age_range", shape, <<25, 35>>),
     gender |-> OptText("gender", shape, "male"),
     ethnicity |-> ListOf("ethnicity", shape, <<"caucasian">>),
     height_cm |-> OptVal("height_cm", shape, 175),
     body_type |-> OptText("body_type", shape, "athletic"),
     hair_color |-> OptText("hair_color", shape, "brown"),
     eye_color |-> OptText("eye_color", shape, "blue"),
     languages |-> ListOf("languages", shape, <<"English", "Spanish">>),
     unions |-> ListOf("unions", shape, <<"SAG-AFTRA">>),
     experience |-> ListOf("experience", shape,
                           <<"Broadway musical theater", "Regional tours">>)]

PersonInputs ==
    {PersonArgs(sh) : sh \in Shapes(PersonOptional,
                                     (PersonOptional \cup {"name"})
                                         \ {"age_range", "height_cm"})}

OrganizationOptional == {"description", "services", "location", "founded_year"}

EmployeeCounts == {-1, 0, 10, 11, 50, 51, 200, 201}

OrganizationArgs(shape, employees_count) ==
    [name |-> ReqText("name", shape, "Acme Studios"),
     org_type |-> ReqText("org_type", shape, "production company"),
     description |-> OptText("description", shape, "Full-service studio"),
     services |-> ListOf("services", shape, <<"casting", "editing">>),
     location |-> OptText("location", shape, "Austin, TX"),
     founded_year |-> OptVal("founded_year", shape, 2000),
     employees_count |-> employees_count]

OrganizationInputs ==
    {OrganizationArgs(sh, ec) :
        sh \in Shapes(OrganizationOptional,
                      (OrganizationOptional \cup {"name", "org_type"})
                          \ {"founded_year"}),
        ec \in {None} \cup {Some(n) : n \in EmployeeCounts}}

LocationOptional ==
    {"description", "amenities", "restrictions", "max_capacity", "parking_info"}

LocationArgs(shape) ==
    [name |-> ReqText("name", shape, "Modern Office Space"),
     description |-> OptText("description", shape, "Bright, modern office"),
     city |-> ReqText("city", shape, "Los Angeles"),
     state |-> ReqText("state", shape, "CA"),
     country |-> ReqText("country", shape, "USA"),
     amenities |-> ListOf("amenities", shape, <<"natural light", "modern furniture">>),
     restrictions |-> ListOf("restrictions", shape, <<"no smoking">>),
     max_capacity |-> OptVal("max_capacity", shape, 50),
     parking_info |-> OptText("parking_info", shape, "Street parking available")]

LocationInputs ==
    {LocationArgs(sh) :
        sh \in Shapes(LocationOptional,
                      (LocationOptional \cup {"name", "city", "state", "country"})
                          \ {"max_capacity"})}

ProductionOptional == {"description", "location", "start_date", "end_date"}

ProductionArgs(shape) ==
    [title |-> ReqText("title", shape, "Night Shift"),
     production_type |-> ReqText("production_type", shape, "feature film"),
     status |-> ReqText("status", shape, "casting"),
     description |-> OptText("description", shape, "A noir thriller"),
     location |-> OptText("location", shape, "Chicago, IL"),
     start_date |-> OptText("start_date", shape, "2025-03-01"),
     end_date |-> OptText("end_date", shape, "2025-06-30")]

ProductionInputs ==
    {ProductionArgs(sh) :
        sh \in Shapes(ProductionOptional,
                      ProductionOptional
                          \cup {"title", "production_type", "status"})}

\* the builder of a kind applied to an attribute set
Build(kind, a) ==
    CASE kind = "person" ->
            build_person_embedding_text(a.name, a.headline, a.bio, a.skills,
                a.location, a.age_range, a.gender, a.ethnicity, a.height_cm,
                a.body_type, a.hair_color, a.eye_color, a.languages, a.unions,
                a.experience)
      [] kind = "organization" ->
            build_organization_embedding_text(a.name, a.org_type, a.description,
                a.services, a.location, a.founded_year, a.employees_count)
      [] kind = "location" ->
            build_location_embedding_text(a.name, a.description, a.city, a.state,
                a.country, a.amenities, a.restrictions, a.max_capacity,
                a.parking_info)
      [] kind = "production" ->
            build_production_embedding_text(a.title, a.production_type, a.status,
                a.description, a.location, a.start_date, a.end_date)

NoText == [kind |-> "none"]

Built(kind, a) == [kind |-> kind, args |-> a, text |-> Build(kind, a), again |-> Unset]

CallBuildPerson ==
    /\ tb = NoText
    /\ \E a \in PersonInputs : tb' = Built("person", a)
    /\ UNCHANGED <<embedder, lockHolder, poisoned, debugEnabled, loads, pc, req, sk,
                   clockYear, botVars>>

CallBuildOrganization ==
    /\ tb = NoText
    /\ \E a \in OrganizationInputs : tb' = Built("organization", a)
    /\ UNCHANGED <<embedder, lockHolder, poisoned, debugEnabled, loads, pc, req, sk,
                   clockYear, botVars>>

CallBuildLocation ==
    /\ tb = NoText
    /\ \E a \in LocationInputs : tb' = Built("location", a)
    /\ UNCHANGED <<embedder, lockHolder, poisoned, debugEnabled, loads, pc, req, sk,
                   clockYear, botVars>>

CallBuildProduction ==
    /\ tb = NoText
    /\ \E a \in ProductionInputs : tb' = Built("production", a)
    /\ UNCHANGED <<embedder, lockHolder, poisoned, debugEnabled, loads, pc, req, sk,
                   clockYear, botVars>>

\* the same builder called once more with the same attributes
CallBuildAgain ==
    /\ tb # NoText
    /\ tb.again = Unset
    /\ tb' = [tb EXCEPT !.again = Ok(Build(tb.kind, tb.args))]
    /\ UNCHANGED <<embedder, lockHolder, poisoned, debugEnabled, loads, pc, req, sk,
                   clockYear, botVars>>

\* the caller has taken the texts
TextReturn ==
    /\ tb # NoText
    /\ tb' = NoText
    /\ UNCHANGED <<embedder, lockHolder, poisoned, debugEnabled, loads, pc, req, sk,
                   clockYear, botVars>>

\* a new year begins
YearPasses ==
    /\ clockYear < StartYear + MaxYearsPassed
    /\ clockYear' = clockYear + 1
    /\ UNCHANGED <<embedder, lockHolder, poisoned, debugEnabled, loads, pc, req, sk,
                   tb, botVars>>

NextText ==
    \/ CallBuildPerson
    \/ CallBuildOrganization
    \/ CallBuildLocation
    \/ CallBuildProduction
    \/ CallBuildAgain
    \/ TextReturn
    \/ YearPasses

-----------------------------------------------------------------------------
(* whatsapp-bot: the equipment commands.  A message text is a sequence of  *)
(* characters; positions inside a text are byte offsets, as in the code.   *)

UpperLetters ==
    <<"A", "B", "C", "D", "E", "F", "G", "H", "I", "J", "K", "L", "M",
      "N", "O", "P", "Q", "R", "S", "T", "U", "V", "W", "X", "Y", "Z">>

LowerLetters ==
    <<"a", "b", "c", "d", "e", "f", "g", "h", "i", "j", "k", "l", "m",
      "n", "o", "p", "q", "r", "s", "t", "u", "v", "w", "x", "y", "z">>

\* char::to_lowercase; the Kelvin sign (3 bytes) has the lowercase "k" (1 byte)
LowerOf(c) ==
    IF \E i \in 1..26 : UpperLetters[i] = c
    THEN <<LowerLetters[CHOOSE i \in 1..26 : UpperLetters[i] = c]>>
    ELSE IF c = "kelvin" THEN <<"k">>
    ELSE <<c>>

\* str::to_lowercase
RECURSIVE ToLowercase(_)
ToLowercase(text) ==
    IF text = <<>> THEN <<>> ELSE LowerOf(Head(text)) \o ToLowercase(Tail(text))

\* str::starts_with
StartsWith(text, prefix) ==
    /\ Len(text) >= Len(prefix)
    /\ SubSeq(text, 1, Len(prefix)) = prefix

\* the characters at which pat occurs in text
Occurrences(text, pat) ==
    {i \in 1..(Len(text) - Len(pat) + 1) : SubSeq(text, i, i + Len(pat) - 1) = pat}

\* str::contains
Contains(text, pat) == Occurrences(text, pat) # {}

\* str::rfind: the byte offset of the last occurrence
RFind(text, pat) ==
    IF Occurrences(text, pat) = {} THEN None
    ELSE LET i == CHOOSE i \in Occurrences(text, pat) :
                      \A j \in Occurrences(text, pat) : j <= i
         IN  Some(ByteOffset(text, i - 1))

\* str::split_at(mid), &text[mid..]: panics unless mid is a char boundary
SplitAt(text, mid) ==
    IF ~IsCharBoundary(text, mid) THEN Panicked
    ELSE LET n == CHOOSE n \in 0..Len(text) : ByteOffset(text, n) = mid
         IN  Ok(<<SubSeq(text, 1, n), SubSeq(text, n + 1, Len(text))>>)

\* rest.splitn(2, |c| c.is_whitespace()): the part before the first
\* whitespace character, and the part after it if there is one
SplitN2(text) ==
    LET ws == {i \in 1..Len(text) : text[i] \in Whitespace}
    IN  IF ws = {} THEN <<text>>
        ELSE LET i == CHOOSE i \in ws : \A j \in ws : i <= j
             IN  <<SubSeq(text, 1, i - 1), SubSeq(text, i + 1, Len(text))>>

PREFIX_SLATEHUB == <<"/", "s", "l", "a", "t", "e", "h", "u", "b">>
PREFIX_SH == <<"/", "s", "h">>

\* parse_command: None, Some((command, args)), or a panic of the slice
parse_command(text0) ==
    LET text == Trim(text0)
        text_lower == ToLowercase(text)
        Split(rest) ==
            LET parts == SplitN2(rest)
                args == IF Len(parts) > 1 THEN Trim(parts[2]) ELSE <<>>
            IN  Ok(Some(<<parts[1], args>>))
        After(mid) ==
            IF SplitAt(text, mid) = Panicked THEN Panicked
            ELSE Split(SplitAt(text, mid).val[2])
    IN  IF StartsWith(text_lower, PREFIX_SLATEHUB \o <<" ">>) THEN After(10)
        ELSE IF StartsWith(text_lower, PREFIX_SH \o <<" ">>) THEN After(4)
        ELSE IF text_lower = PREFIX_SLATEHUB \/ text_lower = PREFIX_SH
        THEN Ok(Some(<<<<"h", "e", "l", "p">>, <<>>>>))
        ELSE Ok(None)

\* a u32 in two 16-bit halves
LIMB == 65536
U32(hi, lo) == [hi |-> hi, lo |-> lo]
U32_ZERO == U32(0, 0)
U32_ONE == U32(0, 1)
U32_MAX == U32(LIMB - 1, LIMB - 1)

U32Less(a, b) == a.hi < b.hi \/ (a.hi = b.hi /\ a.lo < b.lo)

\* a + b in u32: the sum modulo 2^32, and whether it passed u32::MAX
U32Add(a, b) ==
    LET lo == a.lo + b.lo
        hi == a.hi + b.hi + (lo \div LIMB)
    IN  [sum |-> U32(hi % LIMB, lo % LIMB), overflow |-> hi >= LIMB]

\* 10 * a + d, as u32::from_str computes it with checked_mul and checked_add
U32Push(a, d) ==
    LET lo == 10 * a.lo + d
        hi == 10 * a.hi + (lo \div LIMB)
    IN  [sum |-> U32(hi % LIMB, lo % LIMB), overflow |-> hi >= LIMB]

DigitValue(c) == CHOOSE d \in 0..9 : Digits[d + 1] = c

IsAsciiDigit(c) == \E d \in 0..9 : Digits[d + 1] = c

RECURSIVE ParseFrom(_, _)
ParseFrom(acc, digits) ==
    IF digits = <<>> THEN Ok(acc)
    ELSE LET next == U32Push(acc, DigitValue(Head(digits)))
         IN  IF next.overflow THEN Err("PosOverflow")
             ELSE ParseFrom(next.sum, Tail(digits))

\* str::parse::<u32> of a string of digits
ParseU32(digits) ==
    IF digits = <<>> THEN Err("Empty") ELSE ParseFrom(U32_ZERO, digits)

\* chars().filter(|c| c.is_ascii_digit()).collect()
AsciiDigits(text) == SelectSeq(text, IsAsciiDigit)

\* parse_item_with_quantity: (name, quantity), or a panic of split_at
parse_item_with_quantity(args0) ==
    LET args == Trim(args0)
        x_pos == RFind(ToLowercase(args), <<" ", "x">>)
        parts == SplitAt(args, x_pos.val)
        qty == ParseU32(AsciiDigits(parts.val[2]))
    IN  IF ~x_pos.some THEN Ok(<<args, U32_ONE>>)
        ELSE IF parts = Panicked THEN Panicked
        ELSE IF qty.tag = "ok" /\ U32Less(U32_ZERO, qty.val)
        THEN Ok(<<Trim(parts.val[1]), qty.val>>)
        ELSE Ok(<<args, U32_ONE>>)

\* the arms of `match command.as_str()` and the command words of each
Commands ==
    [help |-> {<<"h", "e", "l", "p">>, <<"e", "q", "u", "i", "p", "h", "e", "l", "p">>},
     add |-> {<<"a", "d", "d">>},
     remove |-> {<<"r", "e", "m", "o", "v", "e">>, <<"d", "e", "l", "e", "t", "e">>,
                 <<"r", "m">>},
     list |-> {<<"l", "i", "s", "t">>, <<"l", "s">>,
               <<"e", "q", "u", "i", "p", "m", "e", "n", "t">>},
     clear |-> {<<"c", "l", "e", "a", "r">>, <<"r", "e", "s", "e", "t">>},
     update |-> {<<"u", "p", "d", "a", "t", "e">>, <<"s", "e", "t">>}]

\* the arm a lowercased command word selects; `_` for any other word
ArmOf(command) ==
    IF \E arm \in DOMAIN Commands : command \in Commands[arm]
    THEN CHOOSE arm \in DOMAIN Commands : command \in Commands[arm]
    ELSE "unknown"

EquipmentItem(name, quantity) == [name |-> name, quantity |-> quantity]

\* list.iter().position(|i| i.name.to_lowercase() == name.to_lowercase()),
\* 0 for None; names compared as they are
Position_CaseSensitive(list, name) ==
    LET found == {i \in 1..Len(list) : list[i].name = name}
    IN  IF found = {} THEN 0 ELSE CHOOSE i \in found : \A j \in found : i <= j

\* list.iter().position(|i| i.name.to_lowercase() == name.to_lowercase()),
\* 0 for None
Position(list, name) ==
    LET found == {i \in 1..Len(list) : ToLowercase(list[i].name) = ToLowercase(name)}
    IN  IF found = {} THEN 0 ELSE CHOOSE i \in found : \A j \in found : i <= j

\* Vec::remove(pos)
RemoveAt(list, pos) == SubSeq(list, 1, pos - 1) \o SubSeq(list, pos + 1, Len(list))

\* the "add" arm under the write lock: the new list and the response, or the
\* panic of `+=` in a build with overflow checks
AddItem(list, name, quantity, checks) ==
    LET pos == Position(list, name)
        total == U32Add(list[pos].quantity, quantity)
    IN  IF pos = 0
        THEN Ok([list |-> Append(list, EquipmentItem(name, quantity)),
                 response |-> IF U32Less(U32_ONE, quantity)
                              THEN <<"Added x", name, quantity>>
                              ELSE <<"Added", name>>])
        ELSE IF total.overflow /\ checks THEN Panicked
        ELSE Ok([list |-> [list EXCEPT ![pos].quantity = total.sum],
                 response |-> <<"Updated quantity", list[pos].name, total.sum>>])

\* the "remove" arm under the write lock
RemoveItem(list, args) ==
    LET pos == Position(list, args)
    IN  IF pos = 0
        THEN [list |-> list, response |-> <<"not found in equipment list", args>>]
        ELSE [list |-> RemoveAt(list, pos), response |-> <<"Removed", list[pos].name>>]

\* the "update" arm under the write lock
UpdateItem(list, name, quantity) ==
    LET pos == Position(list, name)
    IN  IF pos = 0
        THEN [list |-> list, response |-> <<"not found, use add", name>>]
        ELSE [list |-> [list EXCEPT ![pos].quantity = quantity],
              response |-> <<"Updated quantity", list[pos].name, quantity>>]

\* the "list" arm under the read lock: one line per item, the quantity shown
\* if it is above 1
ListLine(item) ==
    IF U32Less(U32_ONE, item.quantity) THEN <<item.name, "x", item.quantity>>
    ELSE <<item.name>>

ListItems(items) ==
    IF items = <<>> THEN <<"Equipment list is empty">>
    ELSE <<"Equipment List", MapSeq(ListLine, items), Len(items)>>

\* The events the bot receives.  A Message event carries the chat, whether
\* the bot itself sent the message, and the text of the message if it has one
MessageTexts ==
    {None,
     Some(<<"h", "i">>),
     Some(<<"h", "i", " ", "S", "l", "a", "t", "e", "H", "u", "b">>),
     Some(<<" ", "/", "s", "h", " ">>),
     Some(<<"/", "s", "h", " ", "f", "r", "o", "b">>),
     Some(<<"/", "s", "h", " ", "a", "d", "d">>),
     Some(<<"/", "s", "h", " ", "a", "d", "d", " ", "a">>),
     Some(<<"/", "S", "H", " ", "A", "D", "D", " ", "A", " ", "x", " ",
            "4", "2", "9", "4", "9", "6", "7", "2", "9", "5">>),
     Some(<<"/", "s", "h", " ", "a", "d", "d", " ", "a", " ", "x", " ", "0">>),
     Some(<<"/", "s", "h", " ", "a", "d", "d", " ", "kelvin", " ", "x", " ", "1">>),
     Some(<<"/", "s", "h", " ", "s", "e", "t", " ", "a", " ", "X", "2">>),
     Some(<<"/", "s", "h", " ", "r", "m", " ", "A">>),
     Some(<<"/", "s", "h", " ", "l", "s">>),
     Some(<<"/", "s", "l", "a", "t", "e", "h", "u", "b", " ", "c", "l", "e", "a", "r">>)}

Chats == {"chat1", "chat2"}

OtherEvent == [kind |-> "Connected"]

MessageEvent(chat, is_from_me, text) ==
    [kind |-> "Message", chat |-> chat, is_from_me |-> is_from_me, text |-> text]

Events ==
    {OtherEvent}
    \cup {MessageEvent(chat, FALSE, text) : chat \in Chats, text \in MessageTexts}
    \cup {MessageEvent("chat1", TRUE, text) : text \in MessageTexts}

Handlers == 1..NumHandlers

\* a handler at one of its await points, or finished
HandlerAt(at, ev, arm, name, quantity, response) ==
    [pc |-> at, ev |-> ev, arm |-> arm, name |-> name, quantity |-> quantity,
     response |-> response]

IdleHandler == HandlerAt("idle", OtherEvent, "none", <<>>, U32_ZERO, None)

\* the handler returns without a response
Returns(ev) == HandlerAt("done", ev, "none", <<>>, U32_ZERO, None)

\* the handler panics outside the store's lock
Panics(ev) == HandlerAt("panicked", ev, "none", <<>>, U32_ZERO, None)

\* the handler is about to send the response
Responds(ev, arm, response) == HandlerAt("reply", ev, arm, <<>>, U32_ZERO, Some(response))

\* process_command up to store.write().await or store.read().await
process_command(ev, command, args) ==
    LET arm == ArmOf(ToLowercase(command))
        item == parse_item_with_quantity(args)
    IN  CASE arm = "help" -> Responds(ev, arm, <<"help">>)
          [] arm \in {"add", "update"} ->
                IF args = <<>> THEN Responds(ev, arm, <<"usage", arm>>)
                ELSE IF item = Panicked THEN Panics(ev)
                ELSE HandlerAt("write", ev, arm, item.val[1], item.val[2], None)
          [] arm = "remove" ->
                IF args = <<>> THEN Responds(ev, arm, <<"usage", arm>>)
                ELSE HandlerAt("write", ev, arm, args, U32_ZERO, None)
          [] arm = "list" -> HandlerAt("read", ev, arm, <<>>, U32_ZERO, None)
          [] arm = "clear" -> HandlerAt("write", ev, arm, <<>>, U32_ZERO, None)
          [] arm = "unknown" -> Returns(ev)

\* the Event::Message arm after the is_from_me test
on_message(ev) ==
    LET parsed == parse_command(ev.text.val)
    IN  IF ~ev.text.some THEN Returns(ev)
        ELSE IF parsed = Panicked THEN Panics(ev)
        ELSE IF parsed.val.some
        THEN process_command(ev, parsed.val.val[1], parsed.val.val[2])
        ELSE IF Contains(ToLowercase(ev.text.val), Tail(PREFIX_SLATEHUB))
        THEN Responds(ev, "mention", <<"is awesome">>)
        ELSE Returns(ev)

\* own messages handled like everybody's
on_event_ReactsToOwn(ev) ==
    IF ev.kind = "Message" THEN on_message(ev) ELSE Returns(ev)

\* the on_event closure up to its first await
on_event(ev) ==
    IF ev.kind # "Message" THEN Returns(ev)
    ELSE IF ev.is_from_me THEN Returns(ev)
    ELSE on_message(ev)

\* what the on_event closure does with each event
Dispatch == [ev \in Events |-> on_event(ev)]

\* store.get(chat_id), and the list entry(chat_id).or_insert_with(Vec::new) gives
Get(chat) == IF chat \in DOMAIN store THEN store[chat] ELSE <<>>

\* the map with chat's list set
Insert(chat, list) ==
    [c \in DOMAIN store \cup {chat} |-> IF c = chat THEN list ELSE store[c]]

EmptyStore == [c \in {} |-> <<>>]

BotStart ==
    /\ store = EmptyStore
    /\ rw = [writer |-> 0, readers |-> {}]
    /\ handler = [h \in Handlers |-> IdleHandler]
    /\ sent = <<>>
    /\ received = 0

\* an event arrives and a handler, the first that is free, runs up to its
\* first await
OnEvent(h) ==
    LET Free(g) == handler[g].pc \in {"idle", "done", "panicked"}
    IN  /\ Free(h)
        /\ \A g \in Handlers : g < h => ~Free(g)
        /\ received < MaxMessages
        /\ received' = received + 1
        /\ \E ev \in Events : handler' = [handler EXCEPT ![h] = Dispatch[ev]]
        /\ UNCHANGED <<store, rw, sent, overflowChecks, serverVars>>

\* store.write().await
WriteLock(h) ==
    /\ handler[h].pc = "write"
    /\ rw.writer = 0
    /\ rw.readers = {}
    /\ rw' = [rw EXCEPT !.writer = h]
    /\ handler' = [handler EXCEPT ![h].pc = handler[h].arm]
    /\ UNCHANGED <<store, sent, received, overflowChecks, serverVars>>

\* store.read().await
ReadLock(h) ==
    /\ handler[h].pc = "read"
    /\ rw.writer = 0
    /\ rw' = [rw EXCEPT !.readers = @ \cup {h}]
    /\ handler' = [handler EXCEPT ![h].pc = handler[h].arm]
    /\ UNCHANGED <<store, sent, received, overflowChecks, serverVars>>

Unlock(h) ==
    rw' = [writer |-> IF rw.writer = h THEN 0 ELSE rw.writer, readers |-> rw.readers \ {h}]

Respond(h, response) ==
    handler' = [handler EXCEPT ![h].pc = "reply", ![h].response = Some(response)]

\* "add" under the write lock
Add(h) ==
    /\ handler[h].pc = "add"
    /\ LET chat == handler[h].ev.chat
           added == AddItem(Get(chat), handler[h].name, handler[h].quantity, overflowChecks)
       IN  IF added = Panicked
           THEN /\ handler' = [handler EXCEPT ![h].pc = "panicked"]
                /\ store' = Insert(chat, Get(chat))
           ELSE /\ Respond(h, added.val.response)
                /\ store' = Insert(chat, added.val.list)
    /\ Unlock(h)
    /\ UNCHANGED <<sent, received, overflowChecks, serverVars>>

\* "remove" | "delete" | "rm" under the write lock
Remove(h) ==
    /\ handler[h].pc = "remove"
    /\ LET chat == handler[h].ev.chat
           removed == RemoveItem(Get(chat), handler[h].name)
       IN  /\ Respond(h, removed.response)
           /\ store' = Insert(chat, removed.list)
    /\ Unlock(h)
    /\ UNCHANGED <<sent, received, overflowChecks, serverVars>>

\* "update" | "set" under the write lock
Update(h) ==
    /\ handler[h].pc = "update"
    /\ LET chat == handler[h].ev.chat
           updated == UpdateItem(Get(chat), handler[h].name, handler[h].quantity)
       IN  /\ Respond(h, updated.response)
           /\ store' = Insert(chat, updated.list)
    /\ Unlock(h)
    /\ UNCHANGED <<sent, received, overflowChecks, serverVars>>

\* "clear" | "reset" under the write lock: store.remove(chat_id)
Clear(h) ==
    /\ handler[h].pc = "clear"
    /\ store' = [c \in DOMAIN store \ {handler[h].ev.chat} |-> store[c]]
    /\ Respond(h, <<"Equipment list cleared">>)
    /\ Unlock(h)
    /\ UNCHANGED <<sent, received, overflowChecks, serverVars>>

\* "list" | "ls" | "equipment" under the read lock
List(h) ==
    /\ handler[h].pc = "list"
    /\ Respond(h, ListItems(Get(handler[h].ev.chat)))
    /\ Unlock(h)
    /\ UNCHANGED <<store, sent, received, overflowChecks, serverVars>>

\* send_reply: the response is handed to client.send_message(..).await; its
\* result is only logged, and the handler returns
SendReply(h) ==
    /\ handler[h].pc = "reply"
    /\ handler' = [handler EXCEPT ![h] = Returns(handler[h].ev)]
    /\ sent' = Append(sent, [chat |-> handler[h].ev.chat, text |-> handler[h].response.val])
    /\ UNCHANGED <<store, rw, received, overflowChecks, serverVars>>

NextBot ==
    \E h \in Handlers :
        \/ OnEvent(h)
        \/ WriteLock(h)
        \/ ReadLock(h)
        \/ Add(h)
        \/ Remove(h)
        \/ Update(h)
        \/ Clear(h)
        \/ List(h)
        \/ SendReply(h)

-----------------------------------------------------------------------------
(* Threads and their requests *)

Threads == 1..NumThreads
\* SpecSearch: the thread serving search_page requests, and the thread that
\* runs init_embedding_service beside it
SearchThreads == {1}
StartupThreads == {2}

NewReq(op, arg) ==
    [op |-> op,                 \* "init", "embed", "batch", "search"
     arg |-> arg,               \* the text(s) of a direct embedding call
     q |-> "absent",            \* search_page: params.q
     called |-> FALSE,          \* search_page called generate_embedding
     emb |-> Unset,             \* what the embedding call returned
     issued |-> {},             \* kinds whose store query was issued
     replies |-> [k \in KindSet |-> "none"],  \* what the store answered
     lists |-> [k \in KindSet |-> <<>>],      \* the per-kind lists so far
     template |-> Unset,        \* the SearchTemplate built
     outcome |-> Unset]         \* what the operation returned

IdleReq == NewReq("none", 0)

\* the text generate_embedding is called with
ArgText(r) == IF r.op = "search" THEN QueryText(r.q) ELSE Text(r.arg)

InitService ==
    /\ embedder = 0
    /\ lockHolder = 0
    /\ poisoned = FALSE
    /\ loads = 0
    /\ pc = [t \in Threads |-> "idle"]
    /\ req = [t \in Threads |-> IdleReq]

Init ==
    /\ InitService
    /\ debugEnabled \in BOOLEAN
    /\ sk = NoCall
    /\ clockYear = StartYear
    /\ tb = NoText
    /\ BotStart
    /\ overflowChecks = FALSE

InitKind ==
    /\ InitService
    /\ debugEnabled = FALSE
    /\ sk = NoCall
    /\ clockYear = StartYear
    /\ tb = NoText
    /\ BotStart
    /\ overflowChecks = FALSE

InitText ==
    /\ InitService
    /\ debugEnabled = FALSE
    /\ sk = NoCall
    /\ clockYear = StartYear
    /\ tb = NoText
    /\ BotStart
    /\ overflowChecks = FALSE

InitBot ==
    /\ InitService
    /\ debugEnabled = FALSE
    /\ sk = NoCall
    /\ clockYear = StartYear
    /\ tb = NoText
    /\ BotStart
    /\ overflowChecks \in BOOLEAN

Finish(t, result) ==
    /\ pc' = [pc EXCEPT ![t] = "done"]
    /\ req' = [req EXCEPT ![t].outcome = result]

-----------------------------------------------------------------------------
(* init_embedding_service *)

InitsInFlight == Cardinality({t \in Threads : pc[t] \in {"init_load", "init_lock"}})

StartInit(t) ==
    /\ pc[t] = "idle"
    /\ loads + InitsInFlight < MaxLoads
    /\ pc' = [pc EXCEPT ![t] = "init_load"]
    /\ req' = [req EXCEPT ![t] = NewReq("init", 0)]
    /\ UNCHANGED <<embedder, lockHolder, poisoned, debugEnabled, loads, sk,
                   clockYear, tb, botVars>>

\* a failed load stored as None: *global_embedder = try_new(..).ok()
InitLoad_ClearsOnFailure(t) ==
    /\ pc[t] = "init_load"
    /\ \/ /\ loads' = loads + 1
          /\ req' = [req EXCEPT ![t].arg = loads + 1]
          /\ pc' = [pc EXCEPT ![t] = "init_lock"]
          /\ UNCHANGED embedder
       \/ /\ Finish(t, Err("ModelLoad"))
          /\ embedder' = 0
          /\ UNCHANGED loads
    /\ UNCHANGED <<lockHolder, poisoned, debugEnabled, sk, clockYear, tb, botVars>>

\* TextEmbedding::try_new(..)?
InitLoad(t) ==
    /\ pc[t] = "init_load"
    /\ \/ /\ loads' = loads + 1
          /\ req' = [req EXCEPT ![t].arg = loads + 1]
          /\ pc' = [pc EXCEPT ![t] = "init_lock"]
       \/ /\ Finish(t, Err("ModelLoad"))
          /\ UNCHANGED loads
    /\ UNCHANGED <<embedder, lockHolder, poisoned, debugEnabled, sk, clockYear, tb, botVars>>

\* EMBEDDER.lock().unwrap(); *global_embedder = Some(embedder); Ok(())
InitStore(t) ==
    /\ pc[t] = "init_lock"
    /\ lockHolder = 0
    /\ IF poisoned
       THEN Finish(t, Panicked) /\ UNCHANGED embedder
       ELSE Finish(t, Ok("unit")) /\ embedder' = req[t].arg
    /\ UNCHANGED <<lockHolder, poisoned, debugEnabled, loads, sk, clockYear, tb, botVars>>

-----------------------------------------------------------------------------
(* generate_embedding, called directly and by search_page *)

StartEmbed(t) ==
    /\ pc[t] = "idle"
    /\ \E text \in EmbedTexts : req' = [req EXCEPT ![t] = NewReq("embed", text)]
    /\ pc' = [pc EXCEPT ![t] = "gen_lock"]
    /\ UNCHANGED <<embedder, lockHolder, poisoned, debugEnabled, loads, sk,
                   clockYear, tb, botVars>>

\* the model reached without waiting for the mutex
GenLock_NoWait(t) ==
    /\ pc[t] = "gen_lock"
    /\ IF poisoned
       THEN Finish(t, Panicked) /\ UNCHANGED lockHolder
       ELSE /\ lockHolder' = t
            /\ pc' = [pc EXCEPT ![t] = "gen_match"]
            /\ UNCHANGED req
    /\ UNCHANGED <<embedder, poisoned, debugEnabled, loads, sk, clockYear, tb, botVars>>

\* let embedder = EMBEDDER.lock().unwrap();
GenLock(t) ==
    /\ pc[t] = "gen_lock"
    /\ lockHolder = 0
    /\ IF poisoned
       THEN Finish(t, Panicked) /\ UNCHANGED lockHolder
       ELSE /\ lockHolder' = t
            /\ pc' = [pc EXCEPT ![t] = "gen_match"]
            /\ UNCHANGED req
    /\ UNCHANGED <<embedder, poisoned, debugEnabled, loads, sk, clockYear, tb, botVars>>

\* embedder.as_ref().unwrap() in place of the match
GenMatch_UnwrapNone(t) ==
    /\ pc[t] = "gen_match"
    /\ IF embedder = 0 \/ (debugEnabled /\ LogPrefixPanics(ArgText(req[t])))
       THEN /\ Finish(t, Panicked)
            /\ poisoned' = TRUE
            /\ lockHolder' = 0
       ELSE /\ pc' = [pc EXCEPT ![t] = "gen_infer"]
            /\ UNCHANGED <<req, lockHolder, poisoned>>
    /\ UNCHANGED <<embedder, debugEnabled, loads, sk, clockYear, tb, botVars>>

\* match embedder.as_ref(): None => Err(not initialized); Some(e) => debug!(..)
GenMatch(t) ==
    /\ pc[t] = "gen_match"
    /\ IF embedder = 0
       THEN /\ req' = [req EXCEPT ![t].emb = Err("NotInitialized")]
            /\ pc' = [pc EXCEPT ![t] = "gen_ret"]
            /\ lockHolder' = 0
            /\ UNCHANGED poisoned
       ELSE IF debugEnabled /\ LogPrefixPanics(ArgText(req[t]))
       THEN /\ Finish(t, Panicked)
            /\ poisoned' = TRUE
            /\ lockHolder' = 0
       ELSE /\ pc' = [pc EXCEPT ![t] = "gen_infer"]
            /\ UNCHANGED <<req, lockHolder, poisoned>>
    /\ UNCHANGED <<embedder, debugEnabled, loads, sk, clockYear, tb, botVars>>

\* e.embed(vec![text.to_string()], None)?; Ok(embeddings.into_iter().next().unwrap())
GenInfer(t) ==
    /\ pc[t] = "gen_infer"
    /\ \E result \in {Ok(Embedding(ArgText(req[t]))), Err("Inference")} :
          req' = [req EXCEPT ![t].emb = result]
    /\ pc' = [pc EXCEPT ![t] = "gen_ret"]
    /\ lockHolder' = 0
    /\ UNCHANGED <<embedder, poisoned, debugEnabled, loads, sk, clockYear, tb, botVars>>

\* the direct caller takes the result; the thread is free again
EmbedReturn(t) ==
    /\ pc[t] = "gen_ret"
    /\ req[t].op = "embed"
    /\ pc' = [pc EXCEPT ![t] = "idle"]
    /\ req' = [req EXCEPT ![t] = IdleReq]
    /\ UNCHANGED <<embedder, lockHolder, poisoned, debugEnabled, loads, sk,
                   clockYear, tb, botVars>>

-----------------------------------------------------------------------------
(* generate_embeddings_batch *)

StartBatch(t) ==
    /\ pc[t] = "idle"
    /\ \E texts \in BatchInputs : req' = [req EXCEPT ![t] = NewReq("batch", texts)]
    /\ pc' = [pc EXCEPT ![t] = "batch_lock"]
    /\ UNCHANGED <<embedder, lockHolder, poisoned, debugEnabled, loads, sk,
                   clockYear, tb, botVars>>

BatchLock(t) ==
    /\ pc[t] = "batch_lock"
    /\ lockHolder = 0
    /\ IF poisoned
       THEN Finish(t, Panicked) /\ UNCHANGED lockHolder
       ELSE /\ lockHolder' = t
            /\ pc' = [pc EXCEPT ![t] = "batch_match"]
            /\ UNCHANGED req
    /\ UNCHANGED <<embedder, poisoned, debugEnabled, loads, sk, clockYear, tb, botVars>>

BatchMatch(t) ==
    /\ pc[t] = "batch_match"
    /\ IF embedder = 0
       THEN /\ Finish(t, Err("NotInitialized"))
            /\ lockHolder' = 0
       ELSE /\ pc' = [pc EXCEPT ![t] = "batch_infer"]
            /\ UNCHANGED <<req, lockHolder>>
    /\ UNCHANGED <<embedder, poisoned, debugEnabled, loads, sk, clockYear, tb, botVars>>

\* e.embed(texts, None): the model runs over the texts in order and gives one
\* vector per text, or the run fails; with no text there is nothing to run
EmbedBatch(texts) ==
    IF texts = <<>> THEN {Ok(<<>>)}
    ELSE {Ok(MapSeq(BatchEmbedding, texts)), Err("Inference")}

\* let embeddings = e.embed(texts, None)?; Ok(embeddings)
BatchInfer(t) ==
    /\ pc[t] = "batch_infer"
    /\ \E result \in EmbedBatch(req[t].arg) : Finish(t, result)
    /\ lockHolder' = 0
    /\ UNCHANGED <<embedder, poisoned, debugEnabled, loads, sk, clockYear, tb, botVars>>

-----------------------------------------------------------------------------
(* search_page *)

\* only the first list counted
Template_PeopleOnly(query, people, organizations, locations, productions) ==
    LET total_results == Len(people)
    IN  [query |-> query,
         has_results |-> total_results > 0,
         total_results |-> total_results,
         people |-> people,
         organizations |-> organizations,
         locations |-> locations,
         productions |-> productions]

\* query: Some(query.to_string()), held as the name of the request's query
Template(query, people, organizations, locations, productions) ==
    LET total_results == Len(people) + Len(organizations)
                         + Len(locations) + Len(productions)
    IN  [query |-> query,
         has_results |-> total_results > 0,
         total_results |-> total_results,
         people |-> people,
         organizations |-> organizations,
         locations |-> locations,
         productions |-> productions]

EmptyTemplate ==
    [query |-> "none",
     has_results |-> FALSE,
     total_results |-> 0,
     people |-> <<>>,
     organizations |-> <<>>,
     locations |-> <<>>,
     productions |-> <<>>]

\* the emptiness test on the untrimmed parameter
StartSearch_NoTrim(t) ==
    /\ pc[t] = "idle"
    /\ \E q \in SearchQueries :
          IF ~Param(q).some \/ Param(q).text = <<>>
          THEN /\ req' = [req EXCEPT ![t] =
                            [NewReq("search", 0) EXCEPT
                                !.q = q, !.template = EmptyTemplate]]
               /\ pc' = [pc EXCEPT ![t] = "render"]
          ELSE /\ req' = [req EXCEPT ![t] =
                            [NewReq("search", 0) EXCEPT
                                !.q = q, !.called = TRUE]]
               /\ pc' = [pc EXCEPT ![t] = "gen_lock"]
    /\ UNCHANGED <<embedder, lockHolder, poisoned, debugEnabled, loads, sk,
                   clockYear, tb, botVars>>

\* the query is trimmed; an empty one renders the empty page, any other is
\* handed to generate_embedding (the session user, read in between, only
\* fills the template's user field)
StartSearch(t) ==
    /\ pc[t] = "idle"
    /\ \E q \in SearchQueries :
          LET query == QueryText(q) IN
          IF query = <<>>
          THEN /\ req' = [req EXCEPT ![t] =
                            [NewReq("search", 0) EXCEPT
                                !.q = q, !.template = EmptyTemplate]]
               /\ pc' = [pc EXCEPT ![t] = "render"]
          ELSE /\ req' = [req EXCEPT ![t] =
                            [NewReq("search", 0) EXCEPT
                                !.q = q, !.called = TRUE]]
               /\ pc' = [pc EXCEPT ![t] = "gen_lock"]
    /\ UNCHANGED <<embedder, lockHolder, poisoned, debugEnabled, loads, sk,
                   clockYear, tb, botVars>>

\* the lookups sent whatever generate_embedding returned
SearchEmbedded_IgnoreErr(t) ==
    /\ pc[t] = "gen_ret"
    /\ req[t].op = "search"
    /\ req' = [req EXCEPT ![t].issued = {Kinds[1]}]
    /\ pc' = [pc EXCEPT ![t] = "await"]
    /\ UNCHANGED <<embedder, lockHolder, poisoned, debugEnabled, loads, sk,
                   clockYear, tb, botVars>>

\* match generate_embedding(query): Err => Err(Error::Internal);
\* Ok(emb) => search_people(emb.clone()) sends the first store query
SearchEmbedded(t) ==
    /\ pc[t] = "gen_ret"
    /\ req[t].op = "search"
    /\ IF req[t].emb.tag = "err"
       THEN Finish(t, Err("Internal"))
       ELSE /\ req' = [req EXCEPT ![t].issued = {Kinds[1]}]
            /\ pc' = [pc EXCEPT ![t] = "await"]
    /\ UNCHANGED <<embedder, lockHolder, poisoned, debugEnabled, loads, sk,
                   clockYear, tb, botVars>>

\* the kind whose store query is in flight
InFlight(r) == CHOOSE k \in r.issued : r.replies[k] = "none"

KindIndex(kind) == CHOOSE i \in 1..Len(Kinds) : Kinds[i] = kind

\* the store answers the query in flight; search_<kind>(..).await? either ends
\* the request with the error, or stores the list and goes on: the next kind's
\* query is sent, or after the last kind the template is built
LookupReply(t) ==
    /\ pc[t] = "await"
    /\ LET kind == InFlight(req[t])
           i == KindIndex(kind)
       IN  \E resp \in StoreResponses(kind, StoreDists, PlainNames, MaxStoreRows) :
             LET result == search_kind(kind, resp)
                 replied == [req[t] EXCEPT !.replies[kind] = resp.tag]
             IN  IF result.tag = "err"
                 THEN /\ req' = [req EXCEPT ![t] = [replied EXCEPT !.outcome = result]]
                      /\ pc' = [pc EXCEPT ![t] = "done"]
                 ELSE LET listed == [replied EXCEPT !.lists[kind] = result.val] IN
                      IF i < Len(Kinds)
                      THEN /\ req' = [req EXCEPT ![t] =
                                 [listed EXCEPT !.issued = @ \cup {Kinds[i + 1]}]]
                           /\ pc' = [pc EXCEPT ![t] = "await"]
                      ELSE /\ req' = [req EXCEPT ![t] =
                                 [listed EXCEPT !.template =
                                     Template(listed.q,
                                              listed.lists["people"],
                                              listed.lists["organizations"],
                                              listed.lists["locations"],
                                              listed.lists["productions"])]]
                           /\ pc' = [pc EXCEPT ![t] = "render"]
    /\ UNCHANGED <<embedder, lockHolder, poisoned, debugEnabled, loads, sk,
                   clockYear, tb, botVars>>

\* template.render().map_err(Error::Template)?; Ok(Html(html))
Render(t) ==
    /\ pc[t] = "render"
    /\ \E result \in {Ok("Html"), Err("Template")} : Finish(t, result)
    /\ UNCHANGED <<embedder, lockHolder, poisoned, debugEnabled, loads, sk,
                   clockYear, tb, botVars>>

\* the operation is over; the thread takes the next one
Return(t) ==
    /\ pc[t] = "done"
    /\ pc' = [pc EXCEPT ![t] = "idle"]
    /\ req' = [req EXCEPT ![t] = IdleReq]
    /\ UNCHANGED <<embedder, lockHolder, poisoned, debugEnabled, loads, sk,
                   clockYear, tb, botVars>>

\* Spec: the embedding service under concurrent callers
Next ==
    \E t \in Threads :
        \/ StartInit(t)
        \/ InitLoad(t)
        \/ InitStore(t)
        \/ StartEmbed(t)
        \/ GenLock(t)
        \/ GenMatch(t)
        \/ GenInfer(t)
        \/ EmbedReturn(t)
        \/ StartBatch(t)
        \/ BatchLock(t)
        \/ BatchMatch(t)
        \/ BatchInfer(t)
        \/ Return(t)

\* SpecSearch: search_page requests, one at a time, while the startup thread
\* runs init_embedding_service
NextSearch ==
    \/ \E t \in SearchThreads :
          \/ StartSearch(t)
          \/ GenLock(t)
          \/ GenMatch(t)
          \/ GenInfer(t)
          \/ SearchEmbedded(t)
          \/ LookupReply(t)
          \/ Render(t)
          \/ Return(t)
    \/ \E t \in StartupThreads :
          \/ StartInit(t)
          \/ InitLoad(t)
          \/ InitStore(t)
          \/ Return(t)

Spec == Init /\ [][Next]_vars

\* Spec with the scheduling the service relies on: a thread inside a
\* generation call keeps running (the match and the inference terminate),
\* and a thread waiting for the EMBEDDER mutex gets it if it is free again
\* and again
Fairness ==
    \A t \in Threads :
        /\ WF_vars(GenMatch(t) \/ GenInfer(t) \/ BatchMatch(t) \/ BatchInfer(t))
        /\ SF_vars(GenLock(t))
        /\ SF_vars(BatchLock(t))

SpecFair == Init /\ [][Next]_vars /\ Fairness

SpecSearch == Init /\ [][NextSearch]_vars

SpecKind == InitKind /\ [][NextKind]_vars

SpecText == InitText /\ [][NextText]_vars

SpecBot == InitBot /\ [][NextBot]_vars

-----------------------------------------------------------------------------
(* Properties of the per-kind lookups (SpecKind) *)

\* a lookup has returned a list for the rows the store sent
KindListed == sk # NoCall /\ sk.resp.tag = "rows" /\ sk.result.tag = "ok"

ReturnedIds == {sk.result.val[i].id : i \in 1..Len(sk.result.val)}

\* for the location table only publicly visible rows qualify
Visible(row) == sk.kind = "locations" => row.is_public

\* C8: the relevance floor is exact for each kind: a row is returned only with
\* a computed score >= 50; a row scoring exactly 49 is left out and a row
\* scoring exactly 50 is returned (a location row when it is public); every
\* returned match carries its row's score.
C8_FloorIsExact ==
    KindListed =>
        /\ \A i \in 1..Len(sk.resp.rows) :
              LET row == sk.resp.rows[i] IN
              /\ row.id \in ReturnedIds => Score(row.dist) >= 50
              /\ Score(row.dist) = 49 => row.id \notin ReturnedIds
              /\ (Score(row.dist) = 50 /\ Visible(row)) => row.id \in ReturnedIds
        /\ \A j \in 1..Len(sk.result.val) :
              \E i \in 1..Len(sk.resp.rows) :
                  /\ sk.resp.rows[i].id = sk.result.val[j].id
                  /\ sk.result.val[j].score = Score(sk.resp.rows[i].dist)

\* a row scoring 49 and a row scoring 50 came back; only the second is returned
C8_Witness ==
    /\ KindListed
    /\ sk.kind = "organizations"
    /\ Len(sk.resp.rows) = 2
    /\ Score(sk.resp.rows[1].dist) = 49
    /\ Score(sk.resp.rows[2].dist) = 50
    /\ sk.result.val = <<[id |-> 2, score |-> 50]>>

\* C9: the location list holds no row whose is_public flag is false, whatever
\* the row's distance or score.
C9_NoPrivateLocation ==
    (KindListed /\ sk.kind = "locations") =>
        \A i \in 1..Len(sk.resp.rows) :
            ~sk.resp.rows[i].is_public => sk.resp.rows[i].id \notin ReturnedIds

\* a private row at distance 0 (score 100) is left out, a public one is returned
C9_Witness ==
    /\ KindListed
    /\ sk.kind = "locations"
    /\ Len(sk.resp.rows) = 2
    /\ ~sk.resp.rows[1].is_public
    /\ Score(sk.resp.rows[1].dist) = 100
    /\ sk.result.val = <<[id |-> 2, score |-> 70]>>

\* C10: every score carried by a returned match is an integer in [0,100],
\* for every raw distance the store returns.
C10_ScoreWithin0To100 ==
    KindListed =>
        \A j \in 1..Len(sk.result.val) :
            sk.result.val[j].score >= 0 /\ sk.result.val[j].score <= 100

\* a < b on f32 values: false when either is NaN
F32Top(x) == BitLen(x.m) + x.e

F32MagLess(a, b) ==
    IF a.m = 0 THEN b.m > 0
    ELSE IF b.m = 0 THEN FALSE
    ELSE IF F32Top(a) # F32Top(b) THEN F32Top(a) < F32Top(b)
    ELSE IF a.e >= b.e THEN a.m * (2 ^ (a.e - b.e)) < b.m
    ELSE a.m < b.m * (2 ^ (b.e - a.e))

F32IsNeg(x) == x.s = -1 /\ (x.k = "inf" \/ x.m > 0)

F32Less(a, b) ==
    CASE a.k = "nan" \/ b.k = "nan" -> FALSE
      [] a.k = "inf" /\ b.k = "inf" -> a.s < b.s
      [] a.k = "inf" -> a.s = -1
      [] b.k = "inf" -> b.s = 1
      [] OTHER ->
            IF F32IsNeg(a) THEN (IF F32IsNeg(b) THEN F32MagLess(b, a) ELSE TRUE)
            ELSE (IF F32IsNeg(b) THEN FALSE ELSE F32MagLess(a, b))

\* the score a lookup returned for the row with this id
ReturnedScore(id) ==
    LET j == CHOOSE j \in 1..Len(sk.result.val) : sk.result.val[j].id = id
    IN  sk.result.val[j].score

\* C11: the score is monotonic in the distance for every kind: of two rows
\* with raw distances r1 < r2, the first row's score is at least the second's,
\* both as computed and as carried by the returned matches.
C11_ScoreMonotonic ==
    KindListed =>
        \A i, j \in 1..Len(sk.resp.rows) :
            LET r1 == sk.resp.rows[i]
                r2 == sk.resp.rows[j]
            IN  F32Less(r1.dist, r2.dist) =>
                    /\ Score(r1.dist) >= Score(r2.dist)
                    /\ (r1.id \in ReturnedIds /\ r2.id \in ReturnedIds) =>
                           ReturnedScore(r1.id) >= ReturnedScore(r2.id)

\* the farther row came first; both are returned, the nearer with the higher score
C11_Witness ==
    /\ KindListed
    /\ sk.kind = "productions"
    /\ Len(sk.resp.rows) = 2
    /\ F32Less(sk.resp.rows[2].dist, sk.resp.rows[1].dist)
    /\ sk.result.val = <<[id |-> 1, score |-> 50], [id |-> 2, score |-> 70]>>

\* round(max(0, 1 - d) * 100) in exact arithmetic, halves upward, for a finite
\* d = s * m * 2^e with e >= -27
ExactScore(d) ==
    IF d.e >= 0
    THEN LET x == 1 - d.s * d.m * (2 ^ d.e) IN IF x > 0 THEN 100 * x ELSE 0
    ELSE LET den == 2 ^ (-d.e)
             num == den - d.s * d.m
             q == num \div den
             r == num % den
             t1 == (r * 10) \div den
             r1 == (r * 10) % den
             t2 == (r1 * 10) \div den
             r2 == (r1 * 10) % den
         IN  IF num <= 0 THEN 0
             ELSE 100 * q + 10 * t1 + t2 + (IF 2 * r2 >= den THEN 1 ELSE 0)

\* C12: for every finite raw distance d each kind's computed score equals
\* round(max(0, 1 - d) * 100); a row at d = 0.3 is returned with score 70 and
\* a row at d = 1.6, scoring 0, is left out by the floor.
C12_ScoreIsRoundedSimilarity ==
    KindListed =>
        \A i \in 1..Len(sk.resp.rows) :
            LET row == sk.resp.rows[i] IN
            /\ row.dist.k = "fin" => Score(row.dist) = ExactScore(row.dist)
            /\ (row.dist = D_0_3 /\ Visible(row)) =>
                   (row.id \in ReturnedIds /\ ReturnedScore(row.id) = 70)
            /\ row.dist = D_1_6 => (Score(row.dist) = 0 /\ row.id \notin ReturnedIds)

-----------------------------------------------------------------------------
(* Properties of search_page (SpecSearch) *)

\* the query parameter is missing, empty or made of whitespace only
IsBlankQuery(q) ==
    ~Param(q).some \/ \A i \in 1..Len(Param(q).text) : Param(q).text[i] \in Whitespace

StoreFailed(r) == {k \in KindSet : r.replies[k] \in {"query_err", "deser_err"}}
StoreAnswered(r) == {k \in KindSet : r.replies[k] = "rows"}

\* C1: a search whose query text is missing, empty or whitespace-only calls
\* generate_embedding never, issues no store lookup, and its result has
\* has_results = false, total_results = 0 and four empty lists.
C1_BlankQueryShortCircuits ==
    \A t \in Threads :
        (req[t].op = "search" /\ IsBlankQuery(req[t].q)) =>
            /\ ~req[t].called
            /\ req[t].emb = Unset
            /\ req[t].issued = {}
            /\ pc[t] \in {"render", "done"}
            /\ req[t].template # Unset
            /\ req[t].template.has_results = FALSE
            /\ req[t].template.total_results = 0
            /\ req[t].template.people = <<>>
            /\ req[t].template.organizations = <<>>
            /\ req[t].template.locations = <<>>
            /\ req[t].template.productions = <<>>

\* a whitespace-only query was answered with the rendered empty page
C1_Witness ==
    \E t \in Threads :
        /\ pc[t] = "done"
        /\ req[t].op = "search"
        /\ req[t].q = "blank"
        /\ req[t].outcome = Ok("Html")
        /\ req[t].template.total_results = 0

\* C4: when one of the four lookups fails and the other three succeed, the
\* request still returns a result (the three kinds' matches and a marker for
\* the failed kind); the request as a whole does not fail.
C4_PartialResultOnOneFailure ==
    \A t \in Threads :
        (/\ pc[t] = "done"
         /\ req[t].op = "search"
         /\ Cardinality(StoreFailed(req[t])) = 1
         /\ Cardinality(StoreAnswered(req[t])) = 3) =>
            /\ req[t].outcome.tag = "ok"
            /\ req[t].template # Unset

\* C5: a store query error or a row-deserialization error in a lookup reaches
\* the caller as a Database failure; it never becomes an empty list of that
\* kind in a result.
C5_StoreFailureSurfaces ==
    \A t \in Threads :
        StoreFailed(req[t]) # {} =>
            /\ pc[t] = "done"
            /\ req[t].outcome = Err("Database")
            /\ req[t].template = Unset

\* the last lookup's rows failed to deserialize after three lookups succeeded
C5_Witness ==
    \E t \in Threads :
        /\ pc[t] = "done"
        /\ req[t].replies["productions"] = "deser_err"
        /\ StoreAnswered(req[t]) = KindSet \ {"productions"}
        /\ req[t].outcome = Err("Database")

\* C6: when generate_embedding fails for a non-empty query (not initialized
\* or inference error), the request fails and no store lookup is issued.
C6_EmbeddingFailureIsFatal ==
    \A t \in Threads :
        (req[t].op = "search" /\ req[t].emb.tag = "err") =>
            /\ req[t].emb.err \in {"NotInitialized", "Inference"}
            /\ req[t].issued = {}
            /\ StoreFailed(req[t]) \cup StoreAnswered(req[t]) = {}
            /\ req[t].template = Unset
            /\ pc[t] \in {"gen_ret", "done"}
            /\ pc[t] = "done" => req[t].outcome = Err("Internal")

\* an inference error on an initialized service ended the request
C6_Witness ==
    \E t \in Threads :
        /\ pc[t] = "done"
        /\ req[t].op = "search"
        /\ req[t].emb = Err("Inference")
        /\ req[t].outcome = Err("Internal")

\* C7: the four lookups of a request are issued concurrently: whenever a
\* lookup is sent to the store, no lookup of the same request has completed.
C7_LookupsIssuedConcurrently ==
    [][\A t \in Threads :
          (req'[t].issued \ req[t].issued # {}) =>
              StoreFailed(req'[t]) \cup StoreAnswered(req'[t]) = {}]_vars

\* C13: in every result built for a non-empty query, total_results is the sum
\* of the lengths of the four filtered lists the same result carries (the
\* lists the four lookups returned), and has_results is true exactly when
\* that total is greater than 0.
C13_TotalIsSumOfLists ==
    \A t \in Threads :
        (req[t].op = "search" /\ ~IsBlankQuery(req[t].q) /\ req[t].template # Unset) =>
            LET tpl == req[t].template IN
            /\ \A k \in KindSet : tpl[k] = req[t].lists[k]
            /\ tpl.total_results = Len(tpl.people) + Len(tpl.organizations)
                                    + Len(tpl.locations) + Len(tpl.productions)
            /\ tpl.has_results <=> tpl.total_results > 0

\* a rendered result with three matches, none of them a location
C13_Witness ==
    \E t \in Threads :
        /\ pc[t] = "done"
        /\ req[t].op = "search"
        /\ req[t].q = "padded"
        /\ req[t].outcome = Ok("Html")
        /\ req[t].template.locations = <<>>
        /\ req[t].template.total_results = 3
        /\ req[t].template.has_results

-----------------------------------------------------------------------------
(* Properties of the embedding service (Spec) *)

Inferring == {t \in Threads : pc[t] \in {"gen_infer", "batch_infer"}}

\* C2: while init_embedding_service has not completed successfully (EMBEDDER
\* holds None), every call of generate_embedding or generate_embeddings_batch
\* returns the "not initialized" error; none panics, none runs the model.
C2_NotInitializedError ==
    embedder = 0 =>
        /\ Inferring = {}
        /\ ~poisoned
        /\ \A t \in Threads :
              /\ pc[t] = "gen_ret" => req[t].emb = Err("NotInitialized")
              /\ (pc[t] = "done" /\ req[t].op \in {"embed", "batch"}) =>
                     req[t].outcome = Err("NotInitialized")

\* both calls returned the error before any initialization
C2_Witness ==
    /\ embedder = 0
    /\ \E t1, t2 \in Threads :
          /\ pc[t1] = "gen_ret"
          /\ req[t1].op = "embed"
          /\ req[t1].emb = Err("NotInitialized")
          /\ pc[t2] = "done"
          /\ req[t2].op = "batch"
          /\ req[t2].outcome = Err("NotInitialized")

\* C3: at most one model inference is in progress at any time, and it runs
\* only while its caller holds the EMBEDDER lock.
C3_OneInferenceAtATime ==
    /\ Cardinality(Inferring) <= 1
    /\ \A t \in Inferring : lockHolder = t

\* one caller runs the model while another waits for the lock
C3_Witness ==
    \E t1, t2 \in Threads :
        /\ pc[t1] = "gen_infer"
        /\ pc[t2] \in {"gen_lock", "batch_lock"}
        /\ lockHolder = t1

\* C14: once init_embedding_service has succeeded, the model instance held by
\* EMBEDDER is never replaced or changed by any later step, be it a generation
\* call or a further init_embedding_service call.
C14_InstanceNeverReplaced ==
    [][embedder # 0 => embedder' = embedder]_vars

\* C15: a generate_embeddings_batch call on an initialized service returns one
\* vector per input text, in input order, or fails as a whole; a call with no
\* input text returns the empty list without error.
C15_BatchAllOrNothing ==
    \A t \in Threads :
        (/\ pc[t] = "done"
         /\ req[t].op = "batch"
         /\ req[t].outcome # Err("NotInitialized")) =>
            /\ \/ req[t].outcome = Ok([i \in 1..Len(req[t].arg) |->
                                          BatchEmbedding(req[t].arg[i])])
               \/ req[t].outcome.tag \in {"err", "panic"}
            /\ req[t].arg = <<>> => req[t].outcome = Ok(<<>>)

-----------------------------------------------------------------------------
(* Properties of the embedding-text builders (SpecText) *)

\* C16: each of the four builders is deterministic: a second call with the
\* same attribute arguments, made at any later time, returns the same text
\* as the first, piece for piece.
C16_BuildersDeterministic ==
    (tb # NoText /\ tb.again # Unset) => tb.again.val = tb.text

\* the literal pieces that introduce each attribute's fragment
FieldLabels(kind) ==
    CASE kind = "person" ->
            [name |-> {"Name: "}, headline |-> {"Role: "}, gender |-> {"Gender: "},
             age_range |-> {"Age range: "}, ethnicity |-> {"Ethnicity: "},
             height_cm |-> {"Height: "}, body_type |-> {"Build: "},
             hair_color |-> {"Hair: "}, eye_color |-> {"Eyes: "},
             location |-> {"Location: "}, skills |-> {"Skills and abilities: "},
             languages |-> {"Languages: "}, unions |-> {"Union membership: "},
             bio |-> {"Background: "}, experience |-> {"Experience: "}]
      [] kind = "organization" ->
            [name |-> {"Organization: "}, org_type |-> {"Type: "},
             location |-> {"Location: "}, services |-> {"Services: "},
             founded_year |-> {"Established "},
             employees_count |-> {" company with "},
             description |-> {"Description: "}]
      [] kind = "location" ->
            [name |-> {"Location: "}, city |-> {"Located in "},
             state |-> {"Located in "}, country |-> {"Located in "},
             description |-> {"Description: "},
             amenities |-> {"Amenities and features: "},
             max_capacity |-> {"Maximum capacity: "}, parking_info |-> {"Parking: "},
             restrictions |-> {"Restrictions: "}]
      [] kind = "production" ->
            [title |-> {"Production: "}, production_type |-> {"Type: "},
             status |-> {"Status: "}, start_date |-> {"Scheduled from ", "Starts on "},
             end_date |-> {" to "}, location |-> {"Filming location: "},
             description |-> {"Description: "}]

OptionalFields(kind) ==
    CASE kind = "person" -> PersonOptional
      [] kind = "organization" -> OrganizationOptional \cup {"employees_count"}
      [] kind = "location" -> LocationOptional
      [] kind = "production" -> ProductionOptional

ListFields ==
    {"skills", "ethnicity", "languages", "unions", "experience", "services",
     "amenities", "restrictions"}

NumberFields ==
    {"age_range", "height_cm", "founded_year", "employees_count", "max_capacity"}

\* an optional attribute that is None, or a list attribute that is empty
IsAbsent(kind, f, a) ==
    /\ f \in OptionalFields(kind)
    /\ IF f \in ListFields THEN a[f] = <<>> ELSE ~a[f].some

\* a present attribute whose value is the empty string (a list: of empty strings)
IsEmptyValued(kind, f, a) ==
    /\ ~IsAbsent(kind, f, a)
    /\ f \notin NumberFields
    /\ IF f \in ListFields THEN \A i \in 1..Len(a[f]) : a[f][i] = <<>>
       ELSE IF f \in OptionalFields(kind) THEN a[f].val = <<>>
       ELSE a[f] = <<>>

Pieces(text) == {text[i] : i \in 1..Len(text)}

\* positions of the text where a label is followed by no value
BareLabels(kind, text) ==
    {i \in 1..Len(text) :
        /\ \E f \in DOMAIN FieldLabels(kind) : text[i] \in FieldLabels(kind)[f]
        /\ i = Len(text) \/ text[i + 1] = ". "}

NoFragmentOfAbsent ==
    tb # NoText =>
        \A f \in OptionalFields(tb.kind) :
            IsAbsent(tb.kind, f, tb.args) =>
                Pieces(tb.text) \cap FieldLabels(tb.kind)[f] = {}

\* C17 as claimed: the text has no fragment for an optional attribute that is
\* None or an empty list, and no text has a label followed by an empty value.
C17_NoEmptyLabelEver ==
    /\ NoFragmentOfAbsent
    /\ tb # NoText => BareLabels(tb.kind, tb.text) = {}

\* C17: the text has no fragment for an optional attribute that is None or an
\* empty list; a label followed by an empty value occurs only as the fragment
\* of a present attribute whose value is the empty string.
C17_NoFragmentForAbsent ==
    /\ NoFragmentOfAbsent
    /\ tb # NoText =>
          \A i \in BareLabels(tb.kind, tb.text) :
              \E f \in DOMAIN FieldLabels(tb.kind) :
                  /\ tb.text[i] \in FieldLabels(tb.kind)[f]
                  /\ IsEmptyValued(tb.kind, f, tb.args)

\* a location without parking info, amenities or capacity: the description
\* fragment is there, none of the absent ones is, and no label stands bare
C17_Witness ==
    /\ tb # NoText
    /\ tb.kind = "location"
    /\ ~tb.args.parking_info.some
    /\ tb.args.amenities = <<>>
    /\ ~tb.args.max_capacity.some
    /\ tb.args.description = Some(<<"Bright, modern office">>)
    /\ "Description: " \in Pieces(tb.text)
    /\ Pieces(tb.text) \cap {"Parking: ", "Amenities and features: ",
                             "Maximum capacity: "} = {}
    /\ BareLabels(tb.kind, tb.text) = {}

\* each kind's fragments in their fixed order, named by the attribute (for
\* "Located in" and the schedule: the first attribute) they present
FieldOrder(kind) ==
    CASE kind = "person" ->
            <<"name", "headline", "gender", "age_range", "ethnicity", "height_cm",
              "body_type", "hair_color", "eye_color", "location", "skills",
              "languages", "unions", "bio", "experience">>
      [] kind = "organization" ->
            <<"name", "org_type", "location", "services", "founded_year",
              "employees_count", "description">>
      [] kind = "location" ->
            <<"name", "city", "description", "amenities", "max_capacity",
              "parking_info", "restrictions">>
      [] kind = "production" ->
            <<"title", "production_type", "status", "start_date", "location",
              "description">>

\* the value of a present string or list attribute as it reads in the text
ValueText(kind, f, a) ==
    IF f \in ListFields
    THEN Join(a[f], IF f = "experience" THEN <<". ">> ELSE <<", ">>)
    ELSE IF f \in OptionalFields(kind) THEN a[f].val
    ELSE a[f]

TierOf(n) ==
    CASE n \in 0..10 -> "small"
      [] n \in 11..50 -> "medium"
      [] n \in 51..200 -> "large"
      [] OTHER -> "enterprise"

\* the labeled fragment of a present attribute; yr is the year of the call
FragmentOf(kind, f, a, yr) ==
    CASE f = "age_range" ->
            <<"Age range: ">> \o FmtInt(a[f].val[1]) \o <<"-">>
            \o FmtInt(a[f].val[2]) \o <<" years old">>
      [] f = "height_cm" ->
            <<"Height: ">> \o FmtInt(a[f].val) \o <<" cm (">>
            \o FmtInt(a[f].val \div 30) \o <<"'">>
            \o FmtInt(((a[f].val % 30) * 2) \div 5) \o <<"\")">>
      [] f = "founded_year" ->
            <<"Established ">> \o FmtInt(yr - a[f].val)
            \o <<" years ago (founded ">> \o FmtInt(a[f].val) \o <<")">>
      [] f = "employees_count" ->
            <<TierOf(a[f].val), " company with ">> \o FmtInt(a[f].val)
            \o <<" employees">>
      [] f = "max_capacity" ->
            <<"Maximum capacity: ">> \o FmtInt(a[f].val) \o <<" people">>
      [] f = "city" ->
            <<"Located in ">> \o a.city \o <<", ">> \o a.state \o <<", ">> \o a.country
      [] f = "start_date" ->
            IF a.end_date.some
            THEN <<"Scheduled from ">> \o a[f].val \o <<" to ">> \o a.end_date.val
            ELSE <<"Starts on ">> \o a[f].val
      [] OTHER ->
            <<CHOOSE l \in FieldLabels(kind)[f] : TRUE>> \o ValueText(kind, f, a)

RECURSIVE FragmentsFrom(_, _, _, _)
FragmentsFrom(kind, fields, a, yr) ==
    IF fields = <<>> THEN <<>>
    ELSE (IF IsAbsent(kind, fields[1], a) THEN <<>>
          ELSE <<FragmentOf(kind, fields[1], a, yr)>>)
         \o FragmentsFrom(kind, Tail(fields), a, yr)

ExpectedText(kind, a, yr) == Join(FragmentsFrom(kind, FieldOrder(kind), a, yr), <<". ">>)

PresentFields(kind, a) == {f \in DOMAIN a : ~IsAbsent(kind, f, a)}

\* the pieces of a present attribute's value
ValuePieces(kind, f, a) ==
    IF f = "age_range" THEN Pieces(FmtInt(a[f].val[1]) \o FmtInt(a[f].val[2]))
    ELSE IF f \in NumberFields THEN Pieces(FmtInt(a[f].val))
    ELSE Pieces(ValueText(kind, f, a))

\* C18 as claimed: the text is made of one labeled fragment per present
\* attribute, so that there are as many fragments as present attributes and
\* every present attribute's label and value occur in the text.
C18_OneFragmentPerAttribute ==
    tb # NoText =>
        /\ \E yr \in StartYear..clockYear :
              /\ tb.text = ExpectedText(tb.kind, tb.args, yr)
              /\ Len(FragmentsFrom(tb.kind, FieldOrder(tb.kind), tb.args, yr))
                    = Cardinality(PresentFields(tb.kind, tb.args))
        /\ \A f \in PresentFields(tb.kind, tb.args) :
              /\ Pieces(tb.text) \cap FieldLabels(tb.kind)[f] # {}
              /\ ValuePieces(tb.kind, f, tb.args) \subseteq Pieces(tb.text)

\* C18: the text equals the labeled fragments of the present attributes in the
\* kind's fixed order, joined by ". ", one fragment per present attribute,
\* except that a location's city, state and country share the one fragment
\* "Located in ..", and a production's start and end date share the one
\* schedule fragment, which is there only when the start date is present.
C18_FragmentsInFixedOrder ==
    tb # NoText =>
        \E yr \in StartYear..clockYear :
            tb.text = ExpectedText(tb.kind, tb.args, yr)

\* a person with headline, age range, location, skills and bio only
C18_Witness ==
    /\ tb # NoText
    /\ tb.kind = "person"
    /\ PresentFields("person", tb.args)
          = {"name", "headline", "age_range", "location", "skills", "bio"}
    /\ tb.text = <<"Name: ", "John Doe", ". ", "Role: ", "Actor", ". ",
                   "Age range: ", "2", "5", "-", "3", "5", " years old", ". ",
                   "Location: ", "Los Angeles, CA", ". ",
                   "Skills and abilities: ", "acting", ", ", "singing", ". ",
                   "Background: ", "Experienced theater performer">>

\* the size label of an organization text: the piece before " company with "
SizeLabelIn(text) ==
    LET i == CHOOSE i \in 1..Len(text) : text[i] = " company with " IN text[i - 1]

\* C19: for every present employee count n the organization text says
\* "small" exactly when 0 <= n <= 10, "medium" exactly when 11 <= n <= 50,
\* "large" exactly when 51 <= n <= 200 and "enterprise" exactly when n > 200.
C19_SizeTiers ==
    (tb # NoText /\ tb.kind = "organization" /\ tb.args.employees_count.some) =>
        LET n == tb.args.employees_count.val
            label == SizeLabelIn(tb.text)
        IN  /\ " company with " \in Pieces(tb.text)
            /\ label = "small" <=> (0 <= n /\ n <= 10)
            /\ label = "medium" <=> (11 <= n /\ n <= 50)
            /\ label = "large" <=> (51 <= n /\ n <= 200)
            /\ label = "enterprise" <=> n > 200

\* occurrences of a piece in a text
Count(text, piece) == Cardinality({i \in 1..Len(text) : text[i] = piece})

\* frag is one of the ". "-joined fragments of the text
HasFragment(text, frag) ==
    \E i \in 1..Len(text) :
        /\ i + Len(frag) - 1 <= Len(text)
        /\ SubSeq(text, i, i + Len(frag) - 1) = frag
        /\ i = 1 \/ text[i - 1] = ". "
        /\ i + Len(frag) - 1 = Len(text) \/ text[i + Len(frag)] = ". "

\* C20: the production text has exactly one schedule fragment "Scheduled from
\* X to Y" when both dates are present, exactly one "Starts on X" when only
\* the start date is present, and no schedule fragment when the start date is
\* absent.
C20_ScheduleFragment ==
    (tb # NoText /\ tb.kind = "production") =>
        LET start == tb.args.start_date
            end == tb.args.end_date
            scheduled == Count(tb.text, "Scheduled from ")
            starts == Count(tb.text, "Starts on ")
        IN  /\ (start.some /\ end.some) =>
                  /\ scheduled = 1 /\ starts = 0
                  /\ HasFragment(tb.text, <<"Scheduled from ">> \o start.val
                                          \o <<" to ">> \o end.val)
            /\ (start.some /\ ~end.some) =>
                  /\ scheduled = 0 /\ starts = 1
                  /\ Count(tb.text, " to ") = 0
                  /\ HasFragment(tb.text, <<"Starts on ">> \o start.val)
            /\ ~start.some =>
                  scheduled = 0 /\ starts = 0 /\ Count(tb.text, " to ") = 0

\* an end date without a start date: the text has no schedule fragment
C20_Witness ==
    /\ tb # NoText
    /\ tb.kind = "production"
    /\ tb.args.end_date = Some(<<"2025-06-30">>)
    /\ ~tb.args.start_date.some
    /\ tb.text = <<"Production: ", "Night Shift", ". ", "Type: ", "feature film",
                   ". ", "Status: ", "casting", ". ",
                   "Filming location: ", "Chicago, IL">>

-----------------------------------------------------------------------------
(* Properties of the person initials (SpecKind) *)

\* the positions where a whitespace-delimited word of the name begins
WordStarts(name) ==
    {i \in 1..Len(name) :
        /\ name[i] \notin Whitespace
        /\ i = 1 \/ name[i - 1] \in Whitespace}

\* the uppercased first characters of the first min(2, k) of the k words
ExpectedInitials(name) ==
    LET starts == WordStarts(name)
        first == CHOOSE i \in starts : \A j \in starts : i <= j
        others == starts \ {first}
        second == CHOOSE i \in others : \A j \in others : i <= j
    IN  IF starts = {} THEN <<>>
        ELSE IF others = {} THEN UpperOf(name[first])
        ELSE UpperOf(name[first]) \o UpperOf(name[second])

\* C21: every person row the search returns carries as initials the
\* uppercased first characters of the first min(2, k) whitespace-delimited
\* words of its name, k being the number of words; a name without words
\* gives empty initials.
C21_InitialsOfFirstTwoWords ==
    (KindListed /\ sk.kind = "people") =>
        \A j \in 1..Len(sk.result.val) :
            \E i \in 1..Len(sk.resp.rows) :
                /\ sk.resp.rows[i].id = sk.result.val[j].id
                /\ sk.result.val[j].initials = ExpectedInitials(sk.resp.rows[i].name)
                /\ WordStarts(sk.resp.rows[i].name) = {} =>
                       sk.result.val[j].initials = <<>>

\* a three-word name and a whitespace-only name were returned
C21_Witness ==
    /\ KindListed
    /\ sk.kind = "people"
    /\ Len(sk.resp.rows) = 2
    /\ sk.resp.rows[1].name = <<"j", "\t", "d", " ", "x">>
    /\ sk.resp.rows[2].name = <<" ", "\t">>
    /\ sk.result.val = <<[id |-> 1, initials |-> <<"J", "D">>, score |-> 70],
                         [id |-> 2, initials |-> <<>>, score |-> 70]>>

-----------------------------------------------------------------------------
(* Further properties of the embedding service (Spec) *)

\* C22: on an initialized service generate_embedding returns Ok or Err for
\* every text and never panics, so the EMBEDDER lock is never poisoned.
C22_GenerateNeverPanics ==
    /\ ~poisoned
    /\ \A t \in Threads : req[t].op = "embed" => req[t].outcome # Panicked

\* a generation call of thread t waits for the EMBEDDER lock
WaitsForLock(t) == pc[t] \in {"gen_lock", "batch_lock"}

\* the generation call of thread t has returned Ok or Err
HasReturned(t) ==
    \/ pc[t] = "gen_ret"
    \/ pc[t] = "done" /\ req[t].op = "batch" /\ req[t].outcome.tag \in {"ok", "err"}

\* C23: a generation call that has returned does not hold the EMBEDDER lock,
\* whichever path it took; and, inferences terminating and the lock being
\* fair, every caller of generate_embedding or generate_embeddings_batch that
\* waits for the lock eventually returns.
C23_CallersEventuallyReturn ==
    /\ [](\A t \in Threads : pc[t] \in {"idle", "gen_ret", "done"} => lockHolder # t)
    /\ \A t \in Threads : WaitsForLock(t) ~> HasReturned(t)


\* C24: an init_embedding_service call whose model load fails returns the
\* error and changes nothing of the service (instance, lock, poison flag);
\* and while the service is uninitialized, a generation call that gets the
\* lock returns the "not initialized" error.
C24_FailedLoadLeavesServiceUnchanged ==
    [][\A t \in Threads :
        /\ (pc[t] = "init_load" /\ pc'[t] = "done") =>
              /\ req'[t].outcome = Err("ModelLoad")
              /\ embedder' = embedder
              /\ lockHolder' = lockHolder
              /\ poisoned' = poisoned
        /\ (embedder = 0 /\ WaitsForLock(t) /\ pc'[t] # pc[t]) =>
              /\ lockHolder' = t
              /\ pc'[t] \in {"gen_match", "batch_match"}
        /\ (embedder = 0 /\ pc[t] = "gen_match" /\ pc'[t] # pc[t]) =>
              /\ pc'[t] = "gen_ret"
              /\ req'[t].emb = Err("NotInitialized")
        /\ (embedder = 0 /\ pc[t] = "batch_match" /\ pc'[t] # pc[t]) =>
              /\ pc'[t] = "done"
              /\ req'[t].outcome = Err("NotInitialized")]_vars

\* an init call has failed to load, the service is still uninitialized, and
\* a generation call has come back with the "not initialized" error
C24_Witness ==
    \E t1, t2 \in Threads :
        /\ pc[t1] = "done"
        /\ req[t1].op = "init"
        /\ req[t1].outcome = Err("ModelLoad")
        /\ embedder = 0
        /\ loads = 0
        /\ pc[t2] = "gen_ret"
        /\ req[t2].emb = Err("NotInitialized")


-----------------------------------------------------------------------------
(* Properties of the equipment bot (SpecBot) *)

\* C25: the bot never reacts to its own messages: a handler given a Message
\* event with is_from_me = true, whatever its text, returns at once with no
\* response; that step processes no command, leaves the equipment store and
\* its lock as they are and sends no reply.
C25_OwnMessagesIgnored ==
    [][\A h \in Handlers :
        (/\ handler'[h] # handler[h]
         /\ handler'[h].ev.kind = "Message"
         /\ handler'[h].ev.is_from_me) =>
            /\ handler'[h].pc = "done"
            /\ handler'[h].arm = "none"
            /\ handler'[h].response = None
            /\ store' = store
            /\ rw' = rw
            /\ sent' = sent]_vars

\* a handler has returned from an own message whose text is an "add" command,
\* the store is still empty and nothing was sent
C25_Witness ==
    \E h \in Handlers :
        /\ handler[h].pc = "done"
        /\ handler[h].ev.kind = "Message"
        /\ handler[h].ev.is_from_me
        /\ handler[h].ev.text = Some(<<"/", "s", "h", " ", "a", "d", "d", " ", "a">>)
        /\ store = EmptyStore
        /\ sent = <<>>

\* two names are equal ignoring case, as the commands compare them
EqIgnoreCase(a, b) == ToLowercase(a) = ToLowercase(b)

\* C26: whatever commands the concurrent handlers have run, no chat's
\* equipment list holds two items whose names are equal ignoring case.
C26_NoDuplicateNames ==
    \A chat \in DOMAIN store :
        \A i, j \in 1..Len(store[chat]) :
            i # j => ~EqIgnoreCase(store[chat][i].name, store[chat][j].name)

\* an "add" has met an item stored under the same name in another case and
\* raised its quantity; the list still has that one item
C26_Witness ==
    \E h \in Handlers :
        /\ handler[h].arm = "add"
        /\ handler[h].response.some
        /\ handler[h].response.val[1] = "Updated quantity"
        /\ handler[h].response.val[2] # handler[h].name
        /\ handler[h].ev.chat \in DOMAIN store
        /\ Len(store[handler[h].ev.chat]) = 1

\* C27: every stored equipment item has a quantity of at least 1.
C27_QuantityAtLeastOne ==
    \A chat \in DOMAIN store :
        \A i \in 1..Len(store[chat]) : U32Less(U32_ZERO, store[chat][i].quantity)

====
